---- MODULE Spec2Model ----
(***************************************************************************)
(* A model of the WebdriverIO MCP server: the session state shared by the  *)
(* tool callbacks (src/src/tools/browser.tool.ts, app-session.tool.ts),    *)
(* the mobile selector generator and the batched scan of live elements     *)
(* (src/src/utils/mobile-elements.ts).                                     *)
(*                                                                         *)
(* Strings are sequences of characters, each character a one-character     *)
(* TLA+ string.  The fixed parts of a template literal are written as one  *)
(* token each (Lit), the interpolated value keeps its characters.          *)
(***************************************************************************)
EXTENDS Integers, Sequences, FiniteSets, TLC

VARIABLES
    \* ---- session state of browser.tool.ts and the tool calls in flight
    browsers,          \* state.browsers: session id -> type of the remote session
    sessionMetadata,   \* state.sessionMetadata: session id -> type
    currentSession,    \* state.currentSession: a session id or NoSession
    remoteLive,        \* sessions that exist on the driver side
    nextSid,           \* the next session id remote() hands out
    calls,             \* tool calls suspended at an await: slot -> call record
    lastResult,        \* how the last finished tool call ended
    \* ---- one run of getVisibleElementsTool / getMobileVisibleElements
    scanPc,            \* position of the scan
    platform,          \* 'android' | 'ios'
    nElems,            \* length of the query result allElements
    viewport,          \* [w, h]: viewportWidth, viewportHeight
    batchStart,        \* the loop variable i (1-based index of the batch's first element)
    task,              \* element index -> position of its async task: new, disp, fetch, done
    visibleElements,   \* the result list
    scanOutcome,       \* what the tool call returned
    device,            \* the application under scan: its elements and how the driver answers
    \* ---- one application of a pure function to drawn inputs
    fnPc, fnIn, fnOut

sessionVars == <<browsers, sessionMetadata, currentSession, remoteLive, nextSid, calls, lastResult>>
scanVars ==
    <<scanPc, platform, nElems, viewport, batchStart, task, visibleElements, scanOutcome, device>>
fnVars == <<fnPc, fnIn, fnOut>>
vars == <<sessionVars, scanVars, fnVars>>

-----------------------------------------------------------------------------
(* JavaScript values *)

Undefined == [t |-> "undefined"]
Null == [t |-> "null"]
Str(s) == [t |-> "str", s |-> s]
Lit(s) == <<s>>

NullWord == <<"n", "u", "l", "l">>

IsSpace(c) == c \in {" ", "\t", "\n"}

RECURSIVE trimStart(_)
trimStart(s) == IF s # <<>> /\ IsSpace(Head(s)) THEN trimStart(Tail(s)) ELSE s

RECURSIVE trimEnd(_)
trimEnd(s) ==
    IF s # <<>> /\ IsSpace(s[Len(s)]) THEN trimEnd(SubSeq(s, 1, Len(s) - 1)) ELSE s

trim(s) == trimEnd(trimStart(s))

\* mutants of isValid
isValid_noNullWord(value) == value.t = "str" /\ trim(value.s) # <<>>
isValid_noTrim(value) == value.t = "str" /\ value.s # NullWord /\ value.s # <<>>

\* value != null && value !== 'null' && value.trim() !== ''
isValid(value) ==
    /\ value.t = "str"
    /\ value.s # NullWord
    /\ trim(value.s) # <<>>

-----------------------------------------------------------------------------
(* buildAllMobileSelectors *)

TextCeiling == 100

resourceIdSelector(v) == Lit("android=new UiSelector().resourceId(\"") \o v.s \o Lit("\")")
accessibilitySelector(v) == Lit("~") \o v.s
androidTextSelector(v) == Lit("android=new UiSelector().text(\"") \o v.s \o Lit("\")")
androidClassSelector(v) == Lit("android=new UiSelector().className(\"") \o v.s \o Lit("\")")
iosPredicateSelector(v) == Lit("-ios predicate string:label == \"") \o v.s \o Lit("\"")
iosClassChainSelector(v) == Lit("-ios class chain:**/") \o v.s

\* selectors.push(x) under a condition
pushIf(selectors, cond, sel) == IF cond THEN Append(selectors, sel) ELSE selectors

\* mutant: the text ceiling compared with <= instead of <
textFits_inclusive(text) == isValid(text) /\ Len(text.s) <= TextCeiling

\* isValid(text) && text!.length < 100
textFits(text) == isValid(text) /\ Len(text.s) < TextCeiling

\* mutant: content description tried before the resource id
androidSelectors_descFirst(a) ==
    LET s1 == pushIf(<<>>, isValid(a.contentDesc), accessibilitySelector(a.contentDesc))
        s2 == pushIf(s1, isValid(a.resourceId), resourceIdSelector(a.resourceId))
        s3 == pushIf(s2, textFits(a.text), androidTextSelector(a.text))
    IN  pushIf(s3, isValid(a.className), androidClassSelector(a.className))

androidSelectors(a) ==
    LET s1 == pushIf(<<>>, isValid(a.resourceId), resourceIdSelector(a.resourceId))
        s2 == pushIf(s1, isValid(a.contentDesc), accessibilitySelector(a.contentDesc))
        s3 == pushIf(s2, textFits(a.text), androidTextSelector(a.text))
    IN  pushIf(s3, isValid(a.className), androidClassSelector(a.className))

\* mutant: the iOS branch without the length check on the text
iosSelectors_noCeiling(a) ==
    LET s1 == pushIf(<<>>, isValid(a.accessibilityId), accessibilitySelector(a.accessibilityId))
        s2 == pushIf(s1, isValid(a.text), iosPredicateSelector(a.text))
    IN  pushIf(s2, isValid(a.className), iosClassChainSelector(a.className))

iosSelectors(a) ==
    LET s1 == pushIf(<<>>, isValid(a.accessibilityId), accessibilitySelector(a.accessibilityId))
        s2 == pushIf(s1, textFits(a.text), iosPredicateSelector(a.text))
    IN  pushIf(s2, isValid(a.className), iosClassChainSelector(a.className))

buildAllMobileSelectors(p, attributes) ==
    IF p = "android" THEN androidSelectors(attributes) ELSE iosSelectors(attributes)

-----------------------------------------------------------------------------
(* The task of one element in getMobileVisibleElements (lines 128-211).    *)
(* A driver call either fulfils with a value or rejects.                   *)

Ok(v) == [ok |-> TRUE, v |-> v]
Rejected == [ok |-> FALSE]

\* promise.catch(() => fallback)
catchOr(outcome, fallback) == IF outcome.ok THEN outcome.v ELSE fallback

Min(a, b) == IF a <= b THEN a ELSE b

\* Array.prototype.slice(from, to), zero-based, `to` exclusive
slice(s, from, to) == SubSeq(s, from + 1, Min(to, Len(s)))

\* mutant: every further candidate kept as an alternate
alternativesOf_all(allSelectors) == slice(allSelectors, 1, Len(allSelectors))

\* allSelectors.slice(1, 2)
alternativesOf(allSelectors) == slice(allSelectors, 1, 2)

\* the attribute bag handed to buildAllMobileSelectors (lines 169-175)
selectorAttributes(el) ==
    [resourceId      |-> catchOr(el.resourceId, Undefined),
     contentDesc     |-> catchOr(el.contentDesc, Undefined),
     accessibilityId |-> catchOr(el.name, Undefined),
     text            |-> catchOr(el.text, Undefined),
     className       |-> catchOr(el.class, Undefined)]

\* mutant: a box that overlaps the viewport counts as inside it
inViewport_overlap(location, size, vp) ==
    /\ location.x + size.width > 0
    /\ location.y + size.height > 0
    /\ location.x < vp.w
    /\ location.y < vp.h

\* mutant: a box without extent is never inside the viewport
inViewport_nonEmpty(location, size, vp) ==
    /\ size.width > 0
    /\ size.height > 0
    /\ location.x >= 0
    /\ location.y >= 0
    /\ location.x + size.width <= vp.w
    /\ location.y + size.height <= vp.h

\* lines 162-166
inViewport(location, size, vp) ==
    /\ location.x >= 0
    /\ location.y >= 0
    /\ location.x + size.width <= vp.w
    /\ location.y + size.height <= vp.h

validOr(cond, value) == IF cond THEN value ELSE Undefined

\* lines 135-206: the element is displayed, its eleven fetches have settled
elementRecord(p, vp, el) ==
    LET tagName == catchOr(el.tagName, Undefined)
        text == catchOr(el.text, Undefined)
        resourceId == catchOr(el.resourceId, Undefined)
        contentDesc == catchOr(el.contentDesc, Undefined)
        accessibilityId == catchOr(el.name, Undefined)
        label == catchOr(el.label, Undefined)
        value == catchOr(el.value, Undefined)
        className == catchOr(el.class, Undefined)
        isEnabled == catchOr(el.isEnabled, TRUE)
        location == catchOr(el.location, [x |-> 0, y |-> 0])
        size == catchOr(el.size, [width |-> 0, height |-> 0])
        allSelectors == buildAllMobileSelectors(p, selectorAttributes(el))
        alternativeSelectors == alternativesOf(allSelectors)
    IN  IF Len(allSelectors) = 0
        THEN Null
        ELSE [selector |-> allSelectors[1],
              isInViewport |-> inViewport(location, size, vp),
              isEnabled |-> isEnabled,
              bounds |-> [x |-> location.x, y |-> location.y,
                          width |-> size.width, height |-> size.height],
              alternativeSelectors |->
                  IF Len(alternativeSelectors) > 0
                  THEN [t |-> "list", items |-> alternativeSelectors]
                  ELSE Undefined,
              tagName |-> validOr(isValid(tagName), tagName),
              text |-> validOr(isValid(text), text),
              resourceId |-> validOr(isValid(resourceId) /\ p = "android", resourceId),
              contentDesc |-> validOr(isValid(contentDesc) /\ p = "android", contentDesc),
              accessibilityId |->
                  validOr(isValid(accessibilityId) /\ p = "ios", accessibilityId),
              label |-> validOr(isValid(label) /\ p = "ios", label),
              value |-> validOr(isValid(value), value),
              className |-> validOr(isValid(className), className)]

\* lines 129-132, 207-210: what the task does once isDisplayed has settled;
\* FALSE when the task is over (its value is null), TRUE when it goes on to
\* the eleven fetches
goesOnAfterDisplayed(outcome) == outcome.ok /\ outcome.v

\* mutant: one rejected fetch rejects the Promise.all and the task ends in
\* its catch
processElement_abortOnFailure(p, vp, el) ==
    IF goesOnAfterDisplayed(el.isDisplayed) /\ \A f \in DOMAIN el : el[f].ok
    THEN elementRecord(p, vp, el)
    ELSE Null

\* the whole task of one element, from its driver outcomes to its value
processElement(p, vp, el) ==
    IF goesOnAfterDisplayed(el.isDisplayed) THEN elementRecord(p, vp, el) ELSE Null

-----------------------------------------------------------------------------
(* Quiescent values of the three groups of variables *)

NoSession == 0
NoMap == [s \in {} |-> "browser"]

SessionIdle ==
    /\ browsers = NoMap
    /\ sessionMetadata = NoMap
    /\ currentSession = NoSession
    /\ remoteLive = {}
    /\ nextSid = 1
    /\ calls = [c \in {} |-> 0]
    /\ lastResult = [tool |-> "none", kind |-> "none"]

ScanIdle ==
    /\ scanPc = "idle"
    /\ platform = "none"
    /\ nElems = 0
    /\ viewport = [w |-> 0, h |-> 0]
    /\ batchStart = 1
    /\ task = [e \in {} |-> 0]
    /\ visibleElements = <<>>
    /\ scanOutcome = [kind |-> "none"]
    /\ device = [n |-> 0]

FnIdle ==
    /\ fnPc = "idle"
    /\ fnIn = [fn |-> "none"]
    /\ fnOut = Undefined

-----------------------------------------------------------------------------
(* Specification SpecSelectors: buildAllMobileSelectors on drawn attribute *)
(* bags.                                                                   *)

Platforms == {"android", "ios"}

Long(n) == [i \in 1..n |-> "x"]

\* the values one attribute can carry: absent, null, the literal "null",
\* empty, blank, a usable value, a usable value with surrounding blanks
AttrPalette(c) ==
    {Undefined, Null, Str(<<>>), Str(NullWord), Str(<<" ">>), Str(<<c>>), Str(<<" ", c, " ">>)}

TextPalette ==
    AttrPalette("t") \cup
        {Str(Long(TextCeiling - 1)), Str(Long(TextCeiling)), Str(Long(TextCeiling + 1))}

AttributeBags ==
    [resourceId : AttrPalette("r"),
     contentDesc : AttrPalette("d"),
     accessibilityId : AttrPalette("n"),
     text : TextPalette,
     className : AttrPalette("c")]

InitSelectors ==
    /\ SessionIdle
    /\ ScanIdle
    /\ fnPc = "in"
    /\ fnOut = Undefined
    /\ \E p \in Platforms, a \in AttributeBags :
           fnIn = [fn |-> "buildAllMobileSelectors", platform |-> p, attributes |-> a]

BuildSelectors ==
    /\ fnPc = "in"
    /\ fnIn.fn = "buildAllMobileSelectors"
    /\ fnOut' = buildAllMobileSelectors(fnIn.platform, fnIn.attributes)
    /\ fnPc' = "out"
    /\ UNCHANGED <<fnIn, sessionVars, scanVars>>

NextSelectors == BuildSelectors

SpecSelectors == InitSelectors /\ [][NextSelectors]_vars

\* "usable" in the words of the specification: present, not the literal
\* "null", and with at least one character that is not white space
Usable(v) ==
    /\ v.t = "str"
    /\ v.s # NullWord
    /\ \E i \in 1..Len(v.s) : ~IsSpace(v.s[i])

BelowCeiling(v) == Len(v.s) < TextCeiling

\* the entries of a candidate list <<keep, selector>> that are kept, in order
RECURSIVE Kept(_)
Kept(cands) ==
    IF cands = <<>> THEN <<>>
    ELSE IF Head(cands)[1] THEN <<Head(cands)[2]>> \o Kept(Tail(cands))
    ELSE Kept(Tail(cands))

Wrap(pre, v, post) == IF v.t = "str" THEN <<pre>> \o v.s \o post ELSE <<>>

AndroidCandidates(a) ==
    << <<Usable(a.resourceId),
         Wrap("android=new UiSelector().resourceId(\"", a.resourceId, <<"\")">>)>>,
       <<Usable(a.contentDesc), Wrap("~", a.contentDesc, <<>>)>>,
       <<Usable(a.text) /\ BelowCeiling(a.text),
         Wrap("android=new UiSelector().text(\"", a.text, <<"\")">>)>>,
       <<Usable(a.className),
         Wrap("android=new UiSelector().className(\"", a.className, <<"\")">>)>> >>

IOSCandidates(a, ceiling) ==
    << <<Usable(a.accessibilityId), Wrap("~", a.accessibilityId, <<>>)>>,
       <<Usable(a.text) /\ (ceiling => BelowCeiling(a.text)),
         Wrap("-ios predicate string:label == \"", a.text, <<"\"">>)>>,
       <<Usable(a.className), Wrap("-ios class chain:**/", a.className, <<>>)>> >>

SelectorsBuilt(p) ==
    fnPc = "out" /\ fnIn.fn = "buildAllMobileSelectors" /\ fnIn.platform = p

C9_IOSCandidateOrder_Original ==
    SelectorsBuilt("ios") => fnOut = Kept(IOSCandidates(fnIn.attributes, FALSE))

\* C9 amended: on iOS the list is the subsequence of [accessibility-id,
\* text predicate, class chain] selectors holding exactly the entries whose
\* value is usable, the text entry only if the text is shorter than 100
\* characters; resourceId and contentDesc contribute nothing.
C9_IOSCandidateOrder ==
    SelectorsBuilt("ios") => fnOut = Kept(IOSCandidates(fnIn.attributes, TRUE))

C9_Witness ==
    /\ SelectorsBuilt("ios")
    /\ Usable(fnIn.attributes.resourceId)
    /\ Usable(fnIn.attributes.contentDesc)
    /\ Usable(fnIn.attributes.accessibilityId)
    /\ Usable(fnIn.attributes.text)
    /\ Len(fnIn.attributes.text.s) = TextCeiling
    /\ Len(fnOut) = 2

-----------------------------------------------------------------------------
(* Specification SpecElement: the task of one element on drawn driver      *)
(* outcomes.                                                               *)

\* what a string fetch can settle with: rejected, null, the literal "null",
\* blank, a usable value
FetchPalette(c) ==
    {Rejected, Ok(Null), Ok(Str(NullWord)), Ok(Str(<<" ">>)), Ok(Str(<<c>>))}

HealthyOrRejected(c) == {Rejected, Ok(Str(<<c>>))}

DisplayedOutcomes == {Ok(TRUE), Ok(FALSE), Rejected}

SmallViewport == [w |-> 100, h |-> 100]

\* elements that differ in what their selector attributes carry
SelectorElements ==
    [isDisplayed : DisplayedOutcomes,
     tagName : {Ok(Str(<<"g">>))},
     text : FetchPalette("t") \cup {Ok(Str(Long(TextCeiling)))},
     resourceId : FetchPalette("r"),
     contentDesc : FetchPalette("d"),
     name : FetchPalette("n"),
     label : {Ok(Str(<<"l">>))},
     value : {Ok(Str(<<"v">>))},
     class : FetchPalette("c"),
     isEnabled : {Ok(TRUE)},
     location : {Ok([x |-> 0, y |-> 0])},
     size : {Ok([width |-> 10, height |-> 10])}]

\* positions and extents around the edges of SmallViewport: inside, touching
\* the far corner, crossing the right, the bottom, the left and the top edge
Locations ==
    {[x |-> 0, y |-> 0], [x |-> 90, y |-> 90], [x |-> 95, y |-> 5], [x |-> 5, y |-> 95],
     [x |-> 0 - 5, y |-> 5], [x |-> 5, y |-> 0 - 5]}

Sizes == {[width |-> 10, height |-> 10], [width |-> 100, height |-> 100]}

\* displayed elements that differ in which fetches reject and in their geometry
LiveStateElements ==
    [isDisplayed : {Ok(TRUE)},
     tagName : HealthyOrRejected("g"),
     text : HealthyOrRejected("t"),
     resourceId : HealthyOrRejected("r"),
     contentDesc : HealthyOrRejected("d"),
     name : HealthyOrRejected("n"),
     label : HealthyOrRejected("l"),
     value : HealthyOrRejected("v"),
     class : HealthyOrRejected("c"),
     isEnabled : {Ok(TRUE), Ok(FALSE), Rejected},
     location : {Ok(l) : l \in Locations} \cup {Rejected},
     size : {Ok(s) : s \in Sizes} \cup {Rejected}]

\* what the fetch of a field that gives no selector can settle with
FieldPalette(c) == {Rejected} \cup {Ok(v) : v \in AttrPalette(c)}

\* displayed elements with a selector that differ in the fields that give
\* no selector
FieldElements ==
    [isDisplayed : {Ok(TRUE)},
     tagName : FieldPalette("g"),
     text : {Ok(Str(<<"t">>))},
     resourceId : {Ok(Str(<<"r">>))},
     contentDesc : {Ok(Str(<<"d">>))},
     name : {Ok(Str(<<"n">>))},
     label : FieldPalette("l"),
     value : FieldPalette("v"),
     class : {Ok(Str(<<"c">>))},
     isEnabled : {Ok(TRUE)},
     location : {Ok([x |-> 0, y |-> 0])},
     size : {Ok([width |-> 10, height |-> 10])}]

InitElement ==
    /\ SessionIdle
    /\ ScanIdle
    /\ fnPc = "in"
    /\ fnOut = Undefined
    /\ \E p \in Platforms, el \in SelectorElements \cup LiveStateElements \cup FieldElements :
           fnIn = [fn |-> "processElement", platform |-> p,
                   viewport |-> SmallViewport, el |-> el]

ProcessElement ==
    /\ fnPc = "in"
    /\ fnIn.fn = "processElement"
    /\ fnOut' = processElement(fnIn.platform, fnIn.viewport, fnIn.el)
    /\ fnPc' = "out"
    /\ UNCHANGED <<fnIn, sessionVars, scanVars>>

NextElement == ProcessElement

SpecElement == InitElement /\ [][NextElement]_vars

ElementEmitted == fnPc = "out" /\ fnIn.fn = "processElement" /\ fnOut # Null

\* C10: in every emitted record the primary selector is the first candidate
\* of the generator's list; alternativeSelectors is absent when the list has
\* one candidate and otherwise holds exactly the second candidate, which is
\* never the primary itself.
C10_PrimaryAndAlternate ==
    ElementEmitted =>
        LET all == buildAllMobileSelectors(fnIn.platform, selectorAttributes(fnIn.el))
        IN  /\ Len(all) >= 1
            /\ fnOut.selector = all[1]
            /\ IF Len(all) = 1
               THEN fnOut.alternativeSelectors = Undefined
               ELSE /\ fnOut.alternativeSelectors = [t |-> "list", items |-> <<all[2]>>]
                    /\ all[2] # all[1]

\* an element with three or more candidates, emitted with one alternate
C10_Witness ==
    /\ ElementEmitted
    /\ Len(buildAllMobileSelectors(fnIn.platform, selectorAttributes(fnIn.el))) >= 3
    /\ fnOut.alternativeSelectors # Undefined
    /\ Len(fnOut.alternativeSelectors.items) = 1

ElementDisplayed ==
    /\ fnPc = "out"
    /\ fnIn.fn = "processElement"
    /\ fnIn.el.isDisplayed = Ok(TRUE)

\* the values a platform builds selectors from, each with its selector
PlatformLocators(p, a) ==
    IF p = "android"
    THEN {<<a.resourceId, Wrap("android=new UiSelector().resourceId(\"", a.resourceId, <<"\")">>)>>,
          <<a.contentDesc, Wrap("~", a.contentDesc, <<>>)>>,
          <<a.text, Wrap("android=new UiSelector().text(\"", a.text, <<"\")">>)>>,
          <<a.className, Wrap("android=new UiSelector().className(\"", a.className, <<"\")">>)>>}
    ELSE {<<a.accessibilityId, Wrap("~", a.accessibilityId, <<>>)>>,
          <<a.text, Wrap("-ios predicate string:label == \"", a.text, <<"\"">>)>>,
          <<a.className, Wrap("-ios class chain:**/", a.className, <<>>)>>}

NoUsableValue(p, a) == \A l \in PlatformLocators(p, a) : ~Usable(l[1])

\* C11: a displayed element none of whose platform attributes (identifiers,
\* text, class) carries a usable value produces no record (the task's value
\* is null, not a failure); every record has a non-empty primary selector
\* that is the selector of a usable value of one of those attributes.
C11_NoUsableLocator ==
    ElementDisplayed =>
        LET a == selectorAttributes(fnIn.el)
        IN  /\ NoUsableValue(fnIn.platform, a) => fnOut = Null
            /\ fnOut # Null =>
                   /\ fnOut.selector # <<>>
                   /\ \E l \in PlatformLocators(fnIn.platform, a) :
                          Usable(l[1]) /\ fnOut.selector = l[2]

\* a displayed element whose attributes are rejected, the literal "null" or
\* blank, dropped without a record
C11_Witness ==
    /\ ElementDisplayed
    /\ NoUsableValue(fnIn.platform, selectorAttributes(fnIn.el))
    /\ fnIn.el.resourceId = Ok(Str(NullWord))
    /\ fnIn.el.name = Ok(Str(NullWord))
    /\ fnIn.el.text = Ok(Str(<<" ">>))
    /\ fnIn.el.class = Rejected
    /\ fnOut = Null

\* the string fetches and the record field each one fills
StringFetches == {"tagName", "text", "resourceId", "contentDesc", "name", "label", "value", "class"}
fieldOf(fetch) ==
    CASE fetch = "name" -> "accessibilityId"
      [] fetch = "class" -> "className"
      [] OTHER -> fetch

\* a fetch that fulfilled with a usable value
Fetched(o) == o.ok /\ Usable(o.v)

\* some attribute of the element gives a selector on platform p
YieldsSelector(p, el) ==
    \/ p = "android" /\ (Fetched(el.resourceId) \/ Fetched(el.contentDesc))
    \/ p = "ios" /\ Fetched(el.name)
    \/ Fetched(el.text) /\ BelowCeiling(el.text.v)
    \/ Fetched(el.class)

\* C20: for a displayed element no rejected fetch drops the element: it is
\* emitted whenever some attribute that was fetched gives a selector.  In the
\* record a string field whose fetch was rejected is absent, isEnabled is
\* true when its fetch was rejected, and a rejected getLocation or getSize
\* leaves zeros in the bounds.
C20_PerAttributeDegradation ==
    ElementDisplayed =>
        LET el == fnIn.el
        IN  /\ YieldsSelector(fnIn.platform, el) => fnOut # Null
            /\ fnOut # Null =>
                   /\ \A f \in StringFetches : ~el[f].ok => fnOut[fieldOf(f)] = Undefined
                   /\ ~el.isEnabled.ok => fnOut.isEnabled = TRUE
                   /\ ~el.location.ok => fnOut.bounds.x = 0 /\ fnOut.bounds.y = 0
                   /\ ~el.size.ok => fnOut.bounds.width = 0 /\ fnOut.bounds.height = 0

\* every fetch rejected but the one of the class: the element is emitted,
\* located by its class
C20_Witness ==
    /\ ElementDisplayed
    /\ \A f \in DOMAIN fnIn.el \ {"isDisplayed", "class"} : ~fnIn.el[f].ok
    /\ fnIn.el.class = Ok(Str(<<"c">>))
    /\ fnOut # Null
    /\ fnOut.className = Str(<<"c">>)
    /\ fnOut.text = Undefined
    /\ fnOut.isEnabled = TRUE

\* the platforms on which the field of a string fetch is carried
CarriedOn(fetch) ==
    CASE fetch \in {"resourceId", "contentDesc"} -> {"android"}
      [] fetch \in {"name", "label"} -> {"ios"}
      [] OTHER -> Platforms

\* C23: in every emitted record each optional field (tagName, text,
\* resourceId, contentDesc, accessibilityId, label, value, className) is
\* the fetched value, unchanged, when the fetch gave a value that is present,
\* not the literal "null" and not blank, and the field belongs to the
\* platform (resourceId, contentDesc: Android; accessibilityId, label: iOS);
\* in every other case the field is omitted.
C23_OptionalFields ==
    ElementEmitted =>
        \A f \in StringFetches :
            IF Fetched(fnIn.el[f]) /\ fnIn.platform \in CarriedOn(f)
            THEN fnOut[fieldOf(f)] = fnIn.el[f].v
            ELSE fnOut[fieldOf(f)] = Undefined

\* an Android record: the resource id is carried, a usable label is left
\* out, and so are a value "null" and a blank tag name
C23_Witness ==
    /\ ElementEmitted
    /\ fnIn.platform = "android"
    /\ fnOut.resourceId = Str(<<"r">>)
    /\ fnIn.el.label = Ok(Str(<<"l">>))
    /\ fnOut.label = Undefined
    /\ fnIn.el.value = Ok(Str(NullWord))
    /\ fnOut.value = Undefined
    /\ fnIn.el.tagName = Ok(Str(<<" ">>))
    /\ fnOut.tagName = Undefined

\* the box lies fully inside the rectangle [0, 0, vp.w, vp.h]
Inside(box, vp) ==
    /\ 0 <= box.x
    /\ 0 <= box.y
    /\ box.x + box.width <= vp.w
    /\ box.y + box.height <= vp.h

BoxOf(location, size) ==
    [x |-> location.x, y |-> location.y, width |-> size.width, height |-> size.height]

C21_EdgeWitness ==
    /\ ElementEmitted
    /\ fnOut.bounds = [x |-> 90, y |-> 90, width |-> 10, height |-> 10]
    /\ fnOut.isInViewport = TRUE

ZeroBox == [x |-> 0, y |-> 0, width |-> 0, height |-> 0]

\* C29: in an emitted record isEnabled is true when the isEnabled fetch
\* failed; when getLocation failed x and y are 0 and the extent is the
\* fetched one, when getSize failed width and height are 0 and the position
\* is the fetched one; an element both of whose fetches failed has the zero
\* rectangle as its bounds and isInViewport = true.
C29_LiveStateFallbacks ==
    ElementEmitted =>
        LET el == fnIn.el
            b == fnOut.bounds
        IN  /\ ~el.isEnabled.ok => fnOut.isEnabled = TRUE
            /\ el.isEnabled.ok => fnOut.isEnabled = el.isEnabled.v
            /\ ~el.location.ok => b.x = 0 /\ b.y = 0
            /\ ~el.size.ok => b.width = 0 /\ b.height = 0
            /\ el.location.ok => b.x = el.location.v.x /\ b.y = el.location.v.y
            /\ el.size.ok => b.width = el.size.v.width /\ b.height = el.size.v.height
            /\ ~el.location.ok /\ ~el.size.ok => b = ZeroBox /\ fnOut.isInViewport = TRUE

\* the three live-state fetches failed: the record says enabled, at the
\* zero rectangle, in the viewport
C29_Witness ==
    /\ ElementEmitted
    /\ fnIn.el.isEnabled = Rejected
    /\ fnIn.el.location = Rejected
    /\ fnIn.el.size = Rejected
    /\ fnOut.isEnabled = TRUE
    /\ fnOut.bounds = ZeroBox
    /\ fnOut.isInViewport = TRUE

-----------------------------------------------------------------------------
(* getVisibleElementsTool and getMobileVisibleElements: the scan           *)

batchSize == 10
NumFetches == 11
ViewportSentinel == 9999

MaxSmallQuery == 3
MaxElems == 11

\* state.browsers.get(state.currentSession) finds a browser
hasBrowser == currentSession \in DOMAIN browsers

DigitChar(d) == <<"0", "1", "2", "3", "4", "5", "6", "7", "8", "9">>[d + 1]
Digits(n) == IF n < 10 THEN <<DigitChar(n)>> ELSE <<DigitChar(n \div 10), DigitChar(n % 10)>>

\* how the driver treats an element during one scan
Kinds == {"healthy", "hidden", "stale", "deaf", "bare", "partial"}

\* element e of the screen, every driver call on it fulfilling
healthyElement(e) ==
    [isDisplayed |-> Ok(TRUE),
     tagName |-> Ok(Str(<<"g">>)),
     text |-> Ok(Str(<<"t">> \o Digits(e))),
     resourceId |-> Ok(Str(<<"r">> \o Digits(e))),
     contentDesc |-> Ok(Str(<<"d">> \o Digits(e))),
     name |-> Ok(Str(<<"n">> \o Digits(e))),
     label |-> Ok(Str(<<"l">> \o Digits(e))),
     value |-> Ok(Null),
     class |-> Ok(Str(<<"c">>)),
     isEnabled |-> Ok(TRUE),
     location |-> Ok([x |-> 0, y |-> 10 * (e - 1)]),
     size |-> Ok([width |-> 10, height |-> 10])]

\* the outcomes of the driver calls on element e:
\*   hidden   isDisplayed fulfils with false
\*   stale    isDisplayed rejects
\*   deaf     displayed, every one of the eleven fetches rejects
\*   bare     displayed, no attribute carries a usable value
\*   partial  displayed, the identifier fetches reject, the others fulfil
elementOutcomes(e, kind) ==
    LET h == healthyElement(e)
    IN  CASE kind = "healthy" -> h
          [] kind = "hidden" -> [h EXCEPT !.isDisplayed = Ok(FALSE)]
          [] kind = "stale" -> [h EXCEPT !.isDisplayed = Rejected]
          [] kind = "deaf" -> [f \in DOMAIN h |-> IF f = "isDisplayed" THEN Ok(TRUE) ELSE Rejected]
          [] kind = "bare" ->
                [h EXCEPT !.text = Ok(Str(<<" ">>)), !.resourceId = Ok(Null),
                          !.contentDesc = Ok(Str(NullWord)), !.name = Ok(Null),
                          !.class = Ok(Str(<<>>))]
          [] kind = "partial" ->
                [h EXCEPT !.resourceId = Rejected, !.name = Rejected]

\* ---- a device whose screen is given as a UI document: the driver answers
\* the query and the attribute fetches from the document's nodes

elementNode(parent, nodeName, attributes) ==
    [parent |-> parent, nodeType |-> 1, nodeName |-> nodeName, attributes |-> attributes]

\* element.getAttribute(name) on a node of the document: null when absent
attributeOf(node, name) ==
    IF \E k \in 1..Len(node.attributes) : node.attributes[k].name = name
    THEN Str(node.attributes[CHOOSE k \in 1..Len(node.attributes) :
                                 node.attributes[k].name = name].value)
    ELSE Null

TrueWord == <<"t", "r", "u", "e">>

\* the attributes the query of lines 101-104 tests for the value "true"
queriedAttributes(p) ==
    IF p = "android"
    THEN {"clickable", "long-clickable", "focusable", "checkable", "scrollable"}
    ELSE {"accessible", "enabled"}

RECURSIVE seqOf(_)
\* the elements of a set of indices in increasing order
seqOf(S) ==
    IF S = {} THEN <<>>
    ELSE LET m == CHOOSE x \in S : \A y \in S : x <= y IN <<m>> \o seqOf(S \ {m})

\* mutant: the query selects every element of the document
xpathMatches_all(nodes, p) == seqOf({i \in 1..Len(nodes) : nodes[i].nodeType = 1})

\* browser.$$(xpathQuery) on the document: the elements, in document order,
\* one of whose queried attributes is "true"
xpathMatches(nodes, p) ==
    seqOf({i \in 1..Len(nodes) :
              /\ nodes[i].nodeType = 1
              /\ \E a \in queriedAttributes(p) : attributeOf(nodes[i], a) = Str(TrueWord)})

\* the driver calls on the e-th element of the query result, every element
\* displayed and enabled; getText gives the text attribute, '' without one
uiElement(node, e) ==
    [isDisplayed |-> Ok(TRUE),
     tagName |-> Ok(Str(Lit(node.nodeName))),
     text |-> Ok(IF attributeOf(node, "text") = Null THEN Str(<<>>)
                 ELSE attributeOf(node, "text")),
     resourceId |-> Ok(attributeOf(node, "resource-id")),
     contentDesc |-> Ok(attributeOf(node, "content-desc")),
     name |-> Ok(attributeOf(node, "name")),
     label |-> Ok(attributeOf(node, "label")),
     value |-> Ok(attributeOf(node, "value")),
     class |-> Ok(attributeOf(node, "class")),
     isEnabled |-> Ok(TRUE),
     location |-> Ok([x |-> 0, y |-> 10 * (e - 1)]),
     size |-> Ok([width |-> 10, height |-> 10])]

elementOf(e) ==
    IF device.kind[e] = "ui"
    THEN uiElement(device.ui[xpathMatches(device.ui, platform)[e]], e)
    ELSE elementOutcomes(e, device.kind[e])

\* mutant: the batch is the whole rest of the query result
batchOf_noSlice(i, n) == i .. n

\* [...allElements].slice(i, i + batchSize), as 1-based element indices
batchOf(i, n) == i .. Min(i + batchSize - 1, n)

\* mutant: the loop goes on as soon as one task of the batch has settled
allSettled_any(batch) == \E e \in batch : task[e] = "done"

\* Promise.allSettled over the tasks of the batch has fulfilled
allSettled(batch) == \A e \in batch : task[e] = "done"

\* the value a settled task of element e fulfilled with: the driver's answers
\* on e are fixed by the device, so the value is kept as this function of them
taskValue(e) == processElement(platform, viewport, elementOf(e))

\* mutant: the values of all settled tasks are pushed, null included
collected_unfiltered(batch) ==
    LET order == seqOf({e \in batch : task[e] = "done"})
    IN  [k \in 1..Len(order) |-> taskValue(order[k])]

\* mutant: the records of a batch are taken from its last task to its first
collected_reversed(batch) ==
    LET order == seqOf({e \in batch : task[e] = "done" /\ taskValue(e) # Null})
    IN  [k \in 1..Len(order) |-> taskValue(order[Len(order) + 1 - k])]

\* lines 214-218: the truthy values of the batch's results, in batch order
collected(batch) ==
    LET order == seqOf({e \in batch : task[e] = "done" /\ taskValue(e) # Null})
    IN  [k \in 1..Len(order) |-> taskValue(order[k])]

\* mutant: the records of a batch are put in front of the list
pushAll_front(list, records) == records \o list

\* visibleElements.push(...) for each record of the batch
pushAll(list, records) == list \o records

\* the loop head at index i with result list ve: the next batch's tasks all
\* start (each issues isDisplayed), or the function returns
loopHead(i, ve) ==
    /\ visibleElements' = ve
    /\ IF i <= nElems
       THEN /\ scanPc' = "batch"
            /\ batchStart' = i
            /\ task' = [e \in DOMAIN task |->
                           IF e \in batchOf(i, nElems) THEN "disp" ELSE task[e]]
            /\ UNCHANGED scanOutcome
       ELSE /\ scanPc' = "done"
            /\ scanOutcome' = [kind |-> "elements", elements |-> ve]
            /\ UNCHANGED <<batchStart, task>>

\* getVisibleElementsTool up to its first await
ScanCall ==
    /\ scanPc = "idle"
    /\ IF ~hasBrowser
       THEN /\ scanPc' = "done"
            /\ scanOutcome' = [kind |-> "error", text |-> "No active browser session"]
            /\ UNCHANGED platform
       ELSE IF browsers[currentSession] \in Platforms
       THEN /\ scanPc' = "query"
            /\ platform' = browsers[currentSession]
            /\ UNCHANGED scanOutcome
       ELSE /\ scanPc' = "execute"
            /\ UNCHANGED <<platform, scanOutcome>>
    /\ UNCHANGED <<nElems, viewport, batchStart, task, visibleElements, device, sessionVars, fnVars>>

\* web browser: browser.execute(getInteractableElements) settles
ExecuteSettles ==
    /\ scanPc = "execute"
    /\ scanPc' = "done"
    /\ \E ok \in BOOLEAN :
           scanOutcome' = IF ok THEN [kind |-> "webElements"]
                          ELSE [kind |-> "error", text |-> "Error getting visible elements"]
    /\ UNCHANGED <<platform, nElems, viewport, batchStart, task, visibleElements, device,
                   sessionVars, fnVars>>

\* browser.$$(xpathQuery) fulfils with the elements of the screen
QueryFulfils ==
    /\ scanPc = "query"
    /\ scanPc' = "winsize"
    /\ nElems' = device.n
    /\ task' = [e \in 1..device.n |-> "new"]
    /\ UNCHANGED <<platform, viewport, batchStart, visibleElements, scanOutcome, device,
                   sessionVars, fnVars>>

\* mutant: the rejected query is swallowed and an empty list returned
QueryRejects_emptyList ==
    /\ scanPc = "query"
    /\ scanPc' = "done"
    /\ scanOutcome' = [kind |-> "elements", elements |-> <<>>]
    /\ UNCHANGED <<platform, nElems, viewport, batchStart, task, visibleElements, device,
                   sessionVars, fnVars>>

\* browser.$$(xpathQuery) rejects: line 223 throws, the tool's catch answers
QueryRejects ==
    /\ scanPc = "query"
    /\ scanPc' = "done"
    /\ scanOutcome' = [kind |-> "error", text |-> "Failed to get mobile visible elements"]
    /\ UNCHANGED <<platform, nElems, viewport, batchStart, task, visibleElements, device,
                   sessionVars, fnVars>>

\* mutant: a failed getWindowSize leaves the width and height at their
\* initial zeros
WindowSizeSettles_noSentinel ==
    /\ scanPc = "winsize"
    /\ viewport' = IF device.windowSizeFails THEN [w |-> 0, h |-> 0] ELSE SmallViewport
    /\ loopHead(1, <<>>)
    /\ UNCHANGED <<platform, nElems, device, sessionVars, fnVars>>

\* browser.getWindowSize() settles; then the loop is entered
WindowSizeSettles ==
    /\ scanPc = "winsize"
    /\ viewport' = IF device.windowSizeFails
                   THEN [w |-> ViewportSentinel, h |-> ViewportSentinel]
                   ELSE SmallViewport
    /\ loopHead(1, <<>>)
    /\ UNCHANGED <<platform, nElems, device, sessionVars, fnVars>>

\* element.isDisplayed() of element e settles
DisplayedSettles(e) ==
    /\ scanPc = "batch"
    /\ task[e] = "disp"
    /\ task' = [task EXCEPT ![e] =
                   IF goesOnAfterDisplayed(elementOf(e).isDisplayed) THEN "fetch" ELSE "done"]
    /\ UNCHANGED <<scanPc, platform, nElems, viewport, batchStart, visibleElements,
                   scanOutcome, device, sessionVars, fnVars>>

\* the Promise.all over the eleven fetches of element e fulfils
FetchesSettle(e) ==
    /\ scanPc = "batch"
    /\ task[e] = "fetch"
    /\ task' = [task EXCEPT ![e] = "done"]
    /\ UNCHANGED <<scanPc, platform, nElems, viewport, batchStart, visibleElements,
                   scanOutcome, device, sessionVars, fnVars>>

\* Promise.allSettled fulfils: the results are collected, i += batchSize
BatchSettled ==
    /\ scanPc = "batch"
    /\ allSettled(batchOf(batchStart, nElems))
    /\ loopHead(batchStart + batchSize,
                pushAll(visibleElements, collected(batchOf(batchStart, nElems))))
    /\ UNCHANGED <<platform, nElems, viewport, device, sessionVars, fnVars>>

\* the screens scanned: every pattern of driver behaviour on a small screen,
\* and on a screen of more than one batch a choice of patterns
oneOddScreen(n, f, kind) == [e \in 1..n |-> IF e = f THEN kind ELSE "healthy"]
cyclicScreen(n) ==
    [e \in 1..n |-> <<"healthy", "hidden", "partial", "stale", "healthy", "bare", "deaf">>[(e % 7) + 1]]

SmallScreens ==
    {[n |-> Len(k), kind |-> k, windowSizeFails |-> w] :
        k \in UNION {[1..n -> Kinds] : n \in 0..MaxSmallQuery}, w \in BOOLEAN}

LargeScreens ==
    {[n |-> MaxElems, kind |-> oneOddScreen(MaxElems, f, "deaf"), windowSizeFails |-> FALSE] :
        f \in {1, batchSize}}
    \cup {[n |-> MaxElems, kind |-> cyclicScreen(MaxElems), windowSizeFails |-> TRUE]}

\* screens given as UI documents: a root element with up to MaxUiNodes children
MaxUiNodes == 2

xmlAttr(name, value) == [name |-> name, value |-> value]

Btn1 == <<xmlAttr("resource-id", <<"b", "t", "n", "1">>), xmlAttr("text", <<"G", "o">>),
          xmlAttr("clickable", TrueWord)>>
LabelOnly == <<xmlAttr("text", <<"L", "a", "b", "e", "l">>)>>
LabelUnclickable ==
    <<xmlAttr("text", <<"L", "a", "b", "e", "l">>), xmlAttr("clickable", <<"f", "a", "l", "s", "e">>)>>
FocusableText == <<xmlAttr("text", <<"O", "k">>), xmlAttr("focusable", TrueWord)>>
EnabledName == <<xmlAttr("name", <<"o", "k">>), xmlAttr("enabled", TrueWord)>>

UiNodeSorts == {Btn1, LabelOnly, LabelUnclickable, FocusableText, EnabledName}

uiDocument(children) ==
    <<elementNode(0, "Root", <<>>)>>
        \o [k \in 1..Len(children) |-> elementNode(1, "Node", children[k])]

UiDocuments ==
    {uiDocument(children) : children \in UNION {[1..n -> UiNodeSorts] : n \in 0..MaxUiNodes}}

UiScreens(p) ==
    {[n |-> Len(xpathMatches(ui, p)), kind |-> [e \in 1..Len(xpathMatches(ui, p)) |-> "ui"],
      windowSizeFails |-> FALSE, ui |-> ui] : ui \in UiDocuments}

SessionTypes == {"browser", "android", "ios"}

oneSession(type) ==
    /\ browsers = [s \in {1} |-> type]
    /\ sessionMetadata = [s \in {1} |-> type]
    /\ currentSession = 1
    /\ remoteLive = {1}
    /\ nextSid = 2
    /\ calls = [c \in {} |-> 0]
    /\ lastResult = [tool |-> "none", kind |-> "none"]

InitScan ==
    /\ \/ /\ SessionIdle \/ \E type \in SessionTypes : oneSession(type)
          /\ device \in SmallScreens \cup LargeScreens
       \/ \E p \in Platforms : oneSession(p) /\ device \in UiScreens(p)
    /\ FnIdle
    /\ scanPc = "idle"
    /\ platform = "none"
    /\ nElems = 0
    /\ viewport = [w |-> 0, h |-> 0]
    /\ batchStart = 1
    /\ task = [e \in {} |-> 0]
    /\ visibleElements = <<>>
    /\ scanOutcome = [kind |-> "none"]

NextScan ==
    \/ ScanCall
    \/ ExecuteSettles
    \/ QueryFulfils
    \/ QueryRejects
    \/ WindowSizeSettles
    \/ \E e \in DOMAIN task : DisplayedSettles(e)
    \/ \E e \in DOMAIN task : FetchesSettle(e)
    \/ BatchSettled

SpecScan == InitScan /\ [][NextScan]_vars

-----------------------------------------------------------------------------
(* Properties of the scan *)

BatchIndex(e) == (e - 1) \div batchSize

AfterQuery == scanPc \in {"winsize", "batch"}

\* a fetch that fulfilled with a usable value
FetchedUsable(o) == o.ok /\ Usable(o.v)

\* the element is displayed and one of its platform's selector attributes
\* was fetched with a usable value
ShouldEmit(e) ==
    LET el == elementOf(e)
    IN  /\ el.isDisplayed.ok
        /\ el.isDisplayed.v
        /\ \/ platform = "android" /\ FetchedUsable(el.resourceId)
           \/ platform = "android" /\ FetchedUsable(el.contentDesc)
           \/ platform = "ios" /\ FetchedUsable(el.name)
           \/ FetchedUsable(el.text) /\ BelowCeiling(el.text.v)
           \/ FetchedUsable(el.class)

\* the list holds exactly one record for each element of S that should be
\* emitted, and nothing else
OneRecordEach(list, S) ==
    LET emit == {e \in S : ShouldEmit(e)}
    IN  /\ Len(list) = Cardinality(emit)
        /\ \A e \in emit : Cardinality({k \in 1..Len(list) : list[k] = taskValue(e)}) = 1

\* some action of the scan is enabled: a driver answer is awaited, or the
\* batch has settled
ScanCanStep ==
    \/ scanPc = "winsize"
    \/ /\ scanPc = "batch"
       /\ \/ \E e \in batchOf(batchStart, nElems) : task[e] \in {"disp", "fetch"}
          \/ allSettled(batchOf(batchStart, nElems))

\* C1: once the element query has succeeded the scan cannot get stuck and
\* ends only by returning a list, whatever fails on single elements; after
\* each batch, and in the returned list, there is exactly one record for each
\* element processed so far that is displayed and has a usable selector (so
\* a first batch of one element whose fetches all fail and nine healthy
\* ones leaves nine records).
C1_FaultIsolation ==
    /\ [](AfterQuery => ScanCanStep)
    /\ [](scanPc = "batch" => OneRecordEach(visibleElements, 1..(batchStart - 1)))
    /\ [](scanOutcome.kind = "elements" => OneRecordEach(scanOutcome.elements, 1..nElems))
    /\ [][AfterQuery /\ scanPc' = "done" => scanOutcome'.kind = "elements"]_vars

\* the first batch of ten, one element deaf and nine healthy, has left nine records
C1_Witness ==
    /\ scanPc = "batch"
    /\ batchStart = batchSize + 1
    /\ Cardinality({e \in 1..batchSize : device.kind[e] = "deaf"}) = 1
    /\ Cardinality({e \in 1..batchSize : device.kind[e] = "healthy"}) = batchSize - 1
    /\ Len(visibleElements) = batchSize - 1

NoSessionError == [kind |-> "error", text |-> "No active browser session"]
QueryError == [kind |-> "error", text |-> "Failed to get mobile visible elements"]

\* C2: without an active session the call ends at once with the error 'No
\* active browser session', a rejected element query ends it with 'Failed to
\* get mobile visible elements', and in both cases no element list, empty or
\* partial, is returned: a list is returned only with a session whose query
\* was answered.
C2_DriverUnavailableIsFatal ==
    /\ [][scanPc = "idle" /\ ~hasBrowser => scanPc' = "done" /\ scanOutcome' = NoSessionError]_vars
    /\ [][scanPc = "query" /\ scanPc' = "done" => scanOutcome' = QueryError]_vars
    /\ [][scanPc = "query" /\ scanPc' # "done" => scanPc' = "winsize" /\ nElems' = device.n]_vars
    /\ [](scanOutcome.kind = "elements" => hasBrowser /\ browsers[currentSession] \in Platforms)
    /\ [](scanOutcome.kind = "error" => visibleElements = <<>> /\ DOMAIN scanOutcome = {"kind", "text"})

\* the query of a mobile session was rejected and the call has answered
C2_Witness ==
    /\ scanPc = "done"
    /\ hasBrowser
    /\ browsers[currentSession] \in Platforms
    /\ scanOutcome = QueryError

\* C5: no task of a later batch has started (issued a driver call) while a
\* task of an earlier batch is unsettled; batches start in the order of the
\* query result.
C5_BatchBarrier ==
    \A e1, e2 \in DOMAIN task :
        BatchIndex(e1) < BatchIndex(e2) /\ task[e2] # "new" => task[e1] = "done"

\* the second batch runs, and two tasks of one batch are in flight together
C5_Witness ==
    /\ \E e \in DOMAIN task : BatchIndex(e) = 1 /\ task[e] \in {"disp", "fetch"}
    /\ \A e \in DOMAIN task : BatchIndex(e) = 0 => task[e] = "done"

C5_ConcurrentWitness ==
    \E e1, e2 \in DOMAIN task :
        /\ e1 # e2
        /\ BatchIndex(e1) = BatchIndex(e2)
        /\ task[e1] = "fetch"
        /\ task[e2] = "disp"

\* driver requests issued and not settled: the query, the window size, one
\* isDisplayed per task waiting for it, the eleven fetches of a task whose
\* Promise.all is pending (counted until the Promise.all fulfils)
InFlightRequests ==
    (IF scanPc \in {"query", "winsize", "execute"} THEN 1 ELSE 0)
    + Cardinality({e \in DOMAIN task : task[e] = "disp"})
    + NumFetches * Cardinality({e \in DOMAIN task : task[e] = "fetch"})

TasksInFlight == Cardinality({e \in DOMAIN task : task[e] \in {"disp", "fetch"}})

\* C6 as stated: at most batchSize driver requests are in flight.
C6_InFlightBound_Original == InFlightRequests <= batchSize

\* C6 amended: at most batchSize element tasks are in flight at any moment;
\* each issues up to eleven concurrent fetches, so the driver requests in
\* flight are bounded by eleven times the batch size, not by the batch size.
C6_InFlightBound ==
    /\ TasksInFlight <= batchSize
    /\ InFlightRequests <= NumFetches * batchSize

\* a full batch with all its tasks in their fetches
C6_Witness ==
    /\ TasksInFlight = batchSize
    /\ InFlightRequests = NumFetches * batchSize

\* the element a record was built from
ElementOfRecord(r) == CHOOSE e \in DOMAIN task : taskValue(e) = r

InBatchOrder(list) ==
    \A k1, k2 \in 1..Len(list) :
        BatchIndex(ElementOfRecord(list[k1])) < BatchIndex(ElementOfRecord(list[k2])) => k1 < k2

\* C7: a record of an element of an earlier batch stands before every record
\* of an element of a later batch, in the list under construction and in the
\* returned list.
C7_InterBatchOrder ==
    /\ InBatchOrder(visibleElements)
    /\ scanOutcome.kind = "elements" => InBatchOrder(scanOutcome.elements)

\* a returned list with records of both batches
C7_Witness ==
    /\ scanOutcome.kind = "elements"
    /\ \E k1, k2 \in 1..Len(scanOutcome.elements) :
           BatchIndex(ElementOfRecord(scanOutcome.elements[k1]))
               < BatchIndex(ElementOfRecord(scanOutcome.elements[k2]))

\* every entry of the list is the record of an element of the query result,
\* and the entries stand in the order of their elements in that result
SubsequenceOfQuery(list) ==
    /\ \A k \in 1..Len(list) : \E e \in 1..nElems : taskValue(e) = list[k]
    /\ \A k1, k2 \in 1..Len(list) :
           k1 < k2 => ElementOfRecord(list[k1]) < ElementOfRecord(list[k2])

\* C24: the list under construction and the returned list are subsequences
\* of the query result: records stand in the order of their elements in the
\* result of browser.$$, also within one batch, in whatever order the tasks
\* of the batch settle.
C24_FullOrder ==
    /\ SubsequenceOfQuery(visibleElements)
    /\ scanOutcome.kind = "elements" => SubsequenceOfQuery(scanOutcome.elements)

\* a returned list with the records of the first and the third element of a
\* batch, the second element having given none
C24_Witness ==
    /\ scanOutcome.kind = "elements"
    /\ nElems = 3
    /\ Len(scanOutcome.elements) = 2
    /\ scanOutcome.elements[1] = taskValue(1)
    /\ scanOutcome.elements[2] = taskValue(3)

\* within a batch a later task has settled with a record while an earlier
\* one, which will give a record too, still waits for isDisplayed
C24_OvertakingWitness ==
    \E e1, e2 \in DOMAIN task :
        /\ e1 < e2
        /\ BatchIndex(e1) = BatchIndex(e2)
        /\ ShouldEmit(e1)
        /\ ShouldEmit(e2)
        /\ task[e1] = "disp"
        /\ task[e2] = "done"

SentinelViewport == [w |-> ViewportSentinel, h |-> ViewportSentinel]

\* C22: a failed getWindowSize does not end the scan: the loop is entered
\* with a viewport of 9999 x 9999 and the call returns a list; in that list
\* every record whose box has a non-negative position and ends within
\* 9999 x 9999 has isInViewport = true.
C22_ViewportSentinel ==
    /\ [][scanPc = "winsize" /\ device.windowSizeFails =>
              /\ viewport' = SentinelViewport
              /\ scanPc' \in {"batch", "done"}
              /\ scanOutcome'.kind # "error"]_vars
    /\ []((scanPc = "batch" \/ scanOutcome.kind = "elements") /\ device.windowSizeFails =>
              viewport = SentinelViewport)
    /\ [](scanOutcome.kind = "elements" /\ device.windowSizeFails =>
              \A k \in 1..Len(scanOutcome.elements) :
                  Inside(scanOutcome.elements[k].bounds, SentinelViewport)
                      => scanOutcome.elements[k].isInViewport = TRUE)

\* getWindowSize failed and the returned list has a record, flagged inside,
\* whose box lies outside the window the device would have reported
C22_Witness ==
    /\ scanOutcome.kind = "elements"
    /\ device.windowSizeFails
    /\ \E k \in 1..Len(scanOutcome.elements) :
           /\ ~Inside(scanOutcome.elements[k].bounds, SmallViewport)
           /\ scanOutcome.elements[k].isInViewport = TRUE

UiScanned(p) == "ui" \in DOMAIN device /\ platform = p /\ scanOutcome.kind = "elements"

\* the attribute lists of the root's children, in document order
UiChildren == [k \in 1..(Len(device.ui) - 1) |-> device.ui[k + 1].attributes]

\* the children that carry an Android interactable flag with the value true
AndroidFlagged(attributes) == attributes \in {Btn1, FocusableText}

\* what the record of a flagged child must say
ExpectedOnAndroid(attributes) ==
    IF attributes = Btn1
    THEN [selector |-> <<"android=new UiSelector().resourceId(\"", "b", "t", "n", "1", "\")">>,
          alternativeSelectors |->
              [t |-> "list",
               items |-> << <<"android=new UiSelector().text(\"", "G", "o", "\")">> >>],
          resourceId |-> Str(<<"b", "t", "n", "1">>),
          text |-> Str(<<"G", "o">>),
          isEnabled |-> TRUE]
    ELSE [selector |-> <<"android=new UiSelector().text(\"", "O", "k", "\")">>,
          alternativeSelectors |-> Undefined,
          resourceId |-> Undefined,
          text |-> Str(<<"O", "k">>),
          isEnabled |-> TRUE]

\* C17: on Android, for a UI document whose elements are all displayed and
\* enabled, the scan returns exactly one record for each node that carries
\* an interactable flag with the value true, in document order, and none for
\* the other nodes; for <Root><Node resource-id="btn1" text="Go"
\* clickable="true"/><Node text="Label"/></Root> that is the one record of
\* btn1, its primary selector built from the resource id and the text
\* selector its only alternate.
C17_EndToEndAndroid ==
    UiScanned("android") =>
        LET flagged == SelectSeq(UiChildren, AndroidFlagged)
            got == scanOutcome.elements
        IN  /\ Len(got) = Len(flagged)
            /\ \A k \in 1..Len(got) :
                   [f \in DOMAIN ExpectedOnAndroid(flagged[k]) |-> got[k][f]]
                       = ExpectedOnAndroid(flagged[k])

\* the document of the claim, scanned: one record, that of btn1
C17_Witness ==
    /\ UiScanned("android")
    /\ device.ui = uiDocument(<<Btn1, LabelOnly>>)
    /\ Len(scanOutcome.elements) = 1
    /\ scanOutcome.elements[1].selector
           = <<"android=new UiSelector().resourceId(\"", "b", "t", "n", "1", "\")">>
    /\ scanOutcome.elements[1].alternativeSelectors.items
           = << <<"android=new UiSelector().text(\"", "G", "o", "\")">> >>

-----------------------------------------------------------------------------
(* Specification Spec: the tool callbacks over the shared session state.   *)
(* A call runs to its first await in one step and is resumed when the      *)
(* awaited driver request settles; calls may overlap.                      *)

MaxSessions == 3
MaxCalls == 2

Slots == 1..MaxCalls

\* tools made of getBrowser() and driver requests inside one try/catch
SimpleTools ==
    {"click_element", "find_element", "get_element_text", "is_displayed",
     "scroll_down", "scroll_up", "get_visible_elements"}

text(tool, isError) == [tool |-> tool, kind |-> "text", error |-> isError]
threw(tool) == [tool |-> tool, kind |-> "threw", error |-> TRUE]

\* Map.prototype.set
mapSet(m, k, v) == [x \in DOMAIN m \cup {k} |-> IF x = k THEN v ELSE m[x]]
\* Map.prototype.delete
mapDelete(m, k) == [x \in DOMAIN m \ {k} |-> m[x]]

suspend(c, call) == calls' = mapSet(calls, c, call)
finish(c, result) == calls' = mapDelete(calls, c) /\ lastResult' = result

\* mutant: the session is registered without its metadata
registerSession_noMetadata(sid, type) ==
    /\ browsers' = mapSet(browsers, sid, type)
    /\ currentSession' = sid
    /\ UNCHANGED sessionMetadata

\* lines 66-72 of browser.tool.ts, lines 114-123 of app-session.tool.ts
registerSession(sid, type) ==
    /\ browsers' = mapSet(browsers, sid, type)
    /\ currentSession' = sid
    /\ sessionMetadata' = mapSet(sessionMetadata, sid, type)

\* startBrowserTool up to `await remote(...)`
StartBrowserCall(c) ==
    /\ c \notin DOMAIN calls
    /\ nextSid <= MaxSessions
    /\ suspend(c, [tool |-> "start_browser", type |-> "browser"])
    /\ UNCHANGED <<browsers, sessionMetadata, currentSession, remoteLive, nextSid, lastResult,
                   scanVars, fnVars>>

\* remote() fulfils: the session is registered and made current
StartBrowserFulfils(c) ==
    /\ c \in DOMAIN calls
    /\ calls[c].tool = "start_browser"
    /\ nextSid <= MaxSessions
    /\ registerSession(nextSid, "browser")
    /\ remoteLive' = remoteLive \cup {nextSid}
    /\ nextSid' = nextSid + 1
    /\ finish(c, text("start_browser", FALSE))
    /\ UNCHANGED <<scanVars, fnVars>>

\* remote() rejects and nothing catches it: the callback itself rejects
StartBrowserRejects(c) ==
    /\ c \in DOMAIN calls
    /\ calls[c].tool = "start_browser"
    /\ finish(c, threw("start_browser"))
    /\ UNCHANGED <<browsers, sessionMetadata, currentSession, remoteLive, nextSid,
                   scanVars, fnVars>>

\* startAppTool up to `await remote(...)`; platform.toLowerCase() is the type
StartAppCall(c, p) ==
    /\ c \notin DOMAIN calls
    /\ nextSid <= MaxSessions
    /\ suspend(c, [tool |-> "start_app_session", type |-> p])
    /\ UNCHANGED <<browsers, sessionMetadata, currentSession, remoteLive, nextSid, lastResult,
                   scanVars, fnVars>>

StartAppFulfils(c) ==
    /\ c \in DOMAIN calls
    /\ calls[c].tool = "start_app_session"
    /\ nextSid <= MaxSessions
    /\ registerSession(nextSid, calls[c].type)
    /\ remoteLive' = remoteLive \cup {nextSid}
    /\ nextSid' = nextSid + 1
    /\ finish(c, text("start_app_session", FALSE))
    /\ UNCHANGED <<scanVars, fnVars>>

\* remote() rejects inside the try: 'Error starting app session'
StartAppRejects(c) ==
    /\ c \in DOMAIN calls
    /\ calls[c].tool = "start_app_session"
    /\ finish(c, text("start_app_session", TRUE))
    /\ UNCHANGED <<browsers, sessionMetadata, currentSession, remoteLive, nextSid,
                   scanVars, fnVars>>

\* closeSessionTool up to `await browser.deleteSession()`; getBrowser() throws
\* into the catch when there is no current browser
CloseCall(c) ==
    /\ c \notin DOMAIN calls
    /\ IF hasBrowser
       THEN suspend(c, [tool |-> "close_session", browser |-> currentSession])
            /\ UNCHANGED lastResult
       ELSE lastResult' = text("close_session", TRUE) /\ UNCHANGED calls
    /\ UNCHANGED <<browsers, sessionMetadata, currentSession, remoteLive, nextSid,
                   scanVars, fnVars>>

\* deleteSession() fulfils; lines 87-90 read state.currentSession as it is now
CloseFulfils(c) ==
    /\ c \in DOMAIN calls
    /\ calls[c].tool = "close_session"
    /\ remoteLive' = remoteLive \ {calls[c].browser}
    /\ browsers' = mapDelete(browsers, currentSession)
    /\ sessionMetadata' = mapDelete(sessionMetadata, currentSession)
    /\ currentSession' = NoSession
    /\ finish(c, text("close_session", FALSE))
    /\ UNCHANGED <<nextSid, scanVars, fnVars>>

\* mutant: the session is dropped from the state although deleteSession()
\* rejected
CloseRejects_dropsSession(c) ==
    /\ c \in DOMAIN calls
    /\ calls[c].tool = "close_session"
    /\ browsers' = mapDelete(browsers, currentSession)
    /\ sessionMetadata' = mapDelete(sessionMetadata, currentSession)
    /\ currentSession' = NoSession
    /\ finish(c, text("close_session", TRUE))
    /\ UNCHANGED <<remoteLive, nextSid, scanVars, fnVars>>

\* deleteSession() rejects: 'Error closing session'
CloseRejects(c) ==
    /\ c \in DOMAIN calls
    /\ calls[c].tool = "close_session"
    /\ finish(c, text("close_session", TRUE))
    /\ UNCHANGED <<browsers, sessionMetadata, currentSession, remoteLive, nextSid,
                   scanVars, fnVars>>

\* a simple tool up to its first driver request
SimpleToolCall(c, tool) ==
    /\ c \notin DOMAIN calls
    /\ IF hasBrowser
       THEN suspend(c, [tool |-> tool, browser |-> currentSession]) /\ UNCHANGED lastResult
       ELSE lastResult' = text(tool, TRUE) /\ UNCHANGED calls
    /\ UNCHANGED <<browsers, sessionMetadata, currentSession, remoteLive, nextSid,
                   scanVars, fnVars>>

\* its driver requests fulfil, or one rejects into the catch
SimpleToolSettles(c) ==
    /\ c \in DOMAIN calls
    /\ calls[c].tool \in SimpleTools
    /\ \E failed \in BOOLEAN : finish(c, text(calls[c].tool, failed))
    /\ UNCHANGED <<browsers, sessionMetadata, currentSession, remoteLive, nextSid,
                   scanVars, fnVars>>

Init == SessionIdle /\ ScanIdle /\ FnIdle

Next ==
    \/ \E c \in Slots : StartBrowserCall(c)
    \/ \E c \in Slots : StartBrowserFulfils(c)
    \/ \E c \in Slots : StartBrowserRejects(c)
    \/ \E c \in Slots, p \in Platforms : StartAppCall(c, p)
    \/ \E c \in Slots : StartAppFulfils(c)
    \/ \E c \in Slots : StartAppRejects(c)
    \/ \E c \in Slots : CloseCall(c)
    \/ \E c \in Slots : CloseFulfils(c)
    \/ \E c \in Slots : CloseRejects(c)

Spec == Init /\ [][Next]_vars

\* Specification SpecTools: the session tools together with the tools that
\* act on the current session
NextTools ==
    \/ Next
    \/ \E c \in Slots, tool \in SimpleTools : SimpleToolCall(c, tool)
    \/ \E c \in Slots : SimpleToolSettles(c)

SpecTools == Init /\ [][NextTools]_vars

\* C3: at most one session is held in the session map at any time.
C3_SingleActiveSession == Cardinality(DOMAIN browsers) <= 1

\* C4: no tool call ends by throwing: every call ends with a text result.
C4_NoToolThrows == lastResult.kind # "threw"

\* ---- steps of close_session, told by what they leave behind

\* the suspended close_session call c ends in this step with the given result
CloseEnds(c, isError) ==
    /\ c \in DOMAIN calls
    /\ calls[c].tool = "close_session"
    /\ calls' = mapDelete(calls, c)
    /\ lastResult' = text("close_session", isError)

\* a close_session call finds no current browser and ends at once
CloseFindsNoBrowser ==
    /\ ~hasBrowser
    /\ calls' = calls
    /\ lastResult' = text("close_session", TRUE)

\* C25: when a close_session call ends successfully it has removed from
\* the session map exactly the session whose deleteSession it awaited, also
\* when a start call completed during that await; the session started
\* meanwhile stays registered and current.
C25_CloseStartInterleaving ==
    [][\A c \in Slots :
          CloseEnds(c, FALSE) =>
              /\ browsers' = mapDelete(browsers, calls[c].browser)
              /\ sessionMetadata' = mapDelete(sessionMetadata, calls[c].browser)
              /\ currentSession # calls[c].browser => currentSession' = currentSession]_vars

\* C26: currentSession is null or a key of the browsers map, and the
\* browsers map and the sessionMetadata map have the same keys, in every
\* state, so also after every sequence of completed calls.
C26_SessionStateInvariant ==
    /\ currentSession = NoSession \/ currentSession \in DOMAIN browsers
    /\ DOMAIN browsers = DOMAIN sessionMetadata

\* no call is in flight, a session was closed and another one is still held
C26_Witness ==
    /\ DOMAIN calls = {}
    /\ lastResult = text("close_session", FALSE)
    /\ currentSession = NoSession
    /\ DOMAIN browsers # {}
    /\ DOMAIN sessionMetadata = DOMAIN browsers

\* Specification SpecClosing: the session tools with close_session called
\* again and again and every deleteSession fulfilling; every awaited driver
\* request settles.
StartSettles(c) ==
    \/ StartBrowserFulfils(c)
    \/ StartBrowserRejects(c)
    \/ StartAppFulfils(c)
    \/ StartAppRejects(c)

NextClosing ==
    \/ \E c \in Slots : StartBrowserCall(c)
    \/ \E c \in Slots, p \in Platforms : StartAppCall(c, p)
    \/ \E c \in Slots : StartSettles(c)
    \/ \E c \in Slots : CloseCall(c)
    \/ \E c \in Slots : CloseFulfils(c)

SpecClosing ==
    /\ Init
    /\ [][NextClosing]_vars
    /\ WF_vars(\E c \in Slots : StartSettles(c))
    /\ WF_vars(\E c \in Slots : CloseCall(c))
    /\ WF_vars(\E c \in Slots : CloseFulfils(c))

\* C27: with close_session repeated and deleteSession succeeding, every
\* session that was started is deleted in the end: after the last start
\* call (at most MaxSessions sessions are started) the browsers map becomes
\* empty and stays so.
C27_EverySessionClosable == <>[](DOMAIN browsers = {})

\* C28: a close_session call that ends with an error, finding no current
\* browser or its deleteSession rejecting, leaves browsers, sessionMetadata
\* and currentSession as they were; a call that ends successfully removes
\* the current session from both maps and sets currentSession to null, and
\* getBrowser then finds no browser; no other step removes a session.
C28_CloseAllOrNothing ==
    /\ [][(CloseFindsNoBrowser \/ \E c \in Slots : CloseEnds(c, TRUE)) =>
              UNCHANGED <<browsers, sessionMetadata, currentSession>>]_vars
    /\ [][\A c \in Slots :
              CloseEnds(c, FALSE) =>
                  /\ browsers' = mapDelete(browsers, currentSession)
                  /\ sessionMetadata' = mapDelete(sessionMetadata, currentSession)
                  /\ currentSession' = NoSession
                  /\ ~hasBrowser']_vars
    /\ [][(\E s \in DOMAIN browsers : s \notin DOMAIN browsers') =>
              \E c \in Slots : CloseEnds(c, FALSE)]_vars

\* deleteSession rejected: the call has ended with an error and the session
\* is still registered and current
C28_Witness ==
    /\ DOMAIN calls = {}
    /\ lastResult = text("close_session", TRUE)
    /\ hasBrowser
    /\ currentSession \in DOMAIN sessionMetadata
    /\ currentSession \in remoteLive

-----------------------------------------------------------------------------
(* countAttributeOccurrences and isAttributeUnique                         *)
(* (src/src/locators/source-parsing.ts).  The regular expression is built  *)
(* from its source text as the code builds it and matched item by item;    *)
(* of the regular-expression syntax the model knows the escape \c, the     *)
(* character class [..] and the wildcard `.`, which is all that the drawn  *)
(* attribute names and values can produce.                                 *)

RegexSpecials == {".", "*", "+", "?", "^", "$", "{", "}", "(", ")", "|", "[", "]", "\\"}

\* mutant: the value goes into the pattern unescaped
escapeRegExp_identity(value) == value

RECURSIVE escapeRegExp(_)
\* value.replace(/[.*+?^${}()|[\]\\]/g, '\\$&')
escapeRegExp(value) ==
    IF value = <<>> THEN <<>>
    ELSE (IF Head(value) \in RegexSpecials THEN <<"\\", Head(value)>> ELSE <<Head(value)>>)
             \o escapeRegExp(Tail(value))

\* `${attribute}=["']${escapedValue}["']`
patternSource(attribute, value) ==
    attribute \o <<"=", "[", "\"", "'", "]">> \o escapeRegExp(value) \o <<"[", "\"", "'", "]">>

\* one item of a compiled pattern matches one character
anyChar == [any |-> TRUE, set |-> {}]
oneOf(S) == [any |-> FALSE, set |-> S]

RECURSIVE compile(_)
\* new RegExp(source, 'g')
compile(src) ==
    IF src = <<>> THEN <<>>
    ELSE IF Head(src) = "\\"
    THEN <<oneOf({src[2]})>> \o compile(SubSeq(src, 3, Len(src)))
    ELSE IF Head(src) = "["
    THEN LET close == CHOOSE j \in 2..Len(src) :
                          src[j] = "]" /\ \A i \in 2..(j - 1) : src[i] # "]"
         IN  <<oneOf({src[i] : i \in 2..(close - 1)})>>
                 \o compile(SubSeq(src, close + 1, Len(src)))
    ELSE IF Head(src) = "."
    THEN <<anyChar>> \o compile(Tail(src))
    ELSE <<oneOf({Head(src)})>> \o compile(Tail(src))

itemMatches(item, c) == item.any \/ c \in item.set

matchesAt(doc, items, i) ==
    /\ i + Len(items) - 1 <= Len(doc)
    /\ \A j \in 1..Len(items) : itemMatches(items[j], doc[i + j - 1])

RECURSIVE matchCount(_, _, _)
\* String.prototype.match with a global pattern: the matches are found from
\* left to right, each search starting behind the previous match
matchCount(doc, items, i) ==
    IF i + Len(items) - 1 > Len(doc) THEN 0
    ELSE IF matchesAt(doc, items, i) THEN 1 + matchCount(doc, items, i + Len(items))
    ELSE matchCount(doc, items, i + 1)

countAttributeOccurrences(sourceXML, attribute, value) ==
    matchCount(sourceXML, compile(patternSource(attribute, value)), 1)

isAttributeUnique(sourceXML, attribute, value) ==
    countAttributeOccurrences(sourceXML, attribute, value) = 1

\* Specification SpecUnique: both functions on drawn documents
MaxDocAttrs == 2

QuotePairs == {<<"\"", "\"">>, <<"'", "'">>, <<"\"", "'">>}
DocNames == {<<"i">>, <<"n">>, <<"x", "i">>}
DocValues == {<<"a">>, <<".">>}

\* the text of one attribute in a document
AttrText(name, q, v) == name \o <<"=", q[1]>> \o v \o <<q[2]>>

AttrTexts == {AttrText(name, q, v) : name \in DocNames, q \in QuotePairs, v \in DocValues}

RECURSIVE joined(_)
joined(parts) ==
    IF parts = <<>> THEN <<>>
    ELSE IF Tail(parts) = <<>> THEN Head(parts)
    ELSE Head(parts) \o <<" ">> \o joined(Tail(parts))

Documents == {joined(parts) : parts \in UNION {[1..n -> AttrTexts] : n \in 0..MaxDocAttrs}}

\* the attribute names asked for: two plain names and one that is a regular-
\* expression metacharacter
AskedAttributes == {<<"i">>, <<"n">>, <<".">>}
AskedValues == DocValues

InitUnique ==
    /\ SessionIdle
    /\ ScanIdle
    /\ fnPc = "in"
    /\ fnOut = Undefined
    /\ \E f \in {"countAttributeOccurrences", "isAttributeUnique"},
          doc \in Documents, attr \in AskedAttributes, v \in AskedValues :
           fnIn = [fn |-> f, sourceXML |-> doc, attribute |-> attr, value |-> v]

CountAttributeOccurrences ==
    /\ fnPc = "in"
    /\ fnIn.fn = "countAttributeOccurrences"
    /\ fnOut' = countAttributeOccurrences(fnIn.sourceXML, fnIn.attribute, fnIn.value)
    /\ fnPc' = "out"
    /\ UNCHANGED <<fnIn, sessionVars, scanVars>>

IsAttributeUnique ==
    /\ fnPc = "in"
    /\ fnIn.fn = "isAttributeUnique"
    /\ fnOut' = isAttributeUnique(fnIn.sourceXML, fnIn.attribute, fnIn.value)
    /\ fnPc' = "out"
    /\ UNCHANGED <<fnIn, sessionVars, scanVars>>

NextUnique == CountAttributeOccurrences \/ IsAttributeUnique

SpecUnique == InitUnique /\ [][NextUnique]_vars

\* the positions of doc at which the text t stands
PositionsOf(t, doc) ==
    {i \in 1..Len(doc) : i + Len(t) - 1 <= Len(doc) /\ SubSeq(doc, i, i + Len(t) - 1) = t}

\* the positions at which attr=<quote>value<quote> stands, each quote being
\* a single or a double quote
QuotedPositions(doc, attr, v) ==
    UNION {PositionsOf(attr \o <<"=", q1>> \o v \o <<q2>>, doc) : q1, q2 \in {"\"", "'"}}

Counted == fnPc = "out" /\ fnIn.fn = "countAttributeOccurrences"
UniqueAsked == fnPc = "out" /\ fnIn.fn = "isAttributeUnique"

PlainName(attr) == \A i \in 1..Len(attr) : attr[i] \notin RegexSpecials

-----------------------------------------------------------------------------
(* parseAndroidBounds and parseIOSBounds (src/src/locators/source-parsing.ts) *)
(* A JavaScript number is an integer or NaN.                               *)

Num(n) == [t |-> "num", n |-> n]
NaN == [t |-> "NaN"]

\* a - b on numbers
minus(a, b) == IF a.t = "num" /\ b.t = "num" THEN Num(a.n - b.n) ELSE NaN

isDigit(c) == c \in {"0", "1", "2", "3", "4", "5", "6", "7", "8", "9"}
digitValue(c) == CHOOSE d \in 0..9 : DigitChar(d) = c

charAt(s, i) == IF i \in 1..Len(s) THEN s[i] ELSE ""

RECURSIVE digitRun(_, _)
\* the length of the longest run of digits of s that starts at i
digitRun(s, i) == IF isDigit(charAt(s, i)) THEN 1 + digitRun(s, i + 1) ELSE 0

RECURSIVE decimal(_)
decimal(ds) ==
    IF ds = <<>> THEN 0
    ELSE 10 * decimal(SubSeq(ds, 1, Len(ds) - 1)) + digitValue(ds[Len(ds)])

\* parseInt(s, 10): leading white space is skipped, a sign is read, then the
\* longest run of digits; NaN when there is no digit
parseInt10(s) ==
    LET body == trimStart(s)
        signed == body # <<>> /\ Head(body) \in {"-", "+"}
        rest == IF signed THEN Tail(body) ELSE body
        n == digitRun(rest, 1)
    IN  IF n = 0 THEN NaN
        ELSE Num((IF signed /\ Head(body) = "-" THEN -1 ELSE 1) * decimal(SubSeq(rest, 1, n)))

\* /\[(\d+),(\d+)\]\[(\d+),(\d+)\]/ tried at position i: the four groups, or
\* <<>> when the pattern does not stand there.  A run of digits is always
\* taken whole, since the character required after it is not a digit.
boundsMatchAt(s, i) ==
    LET n1 == digitRun(s, i + 1)
        comma1 == i + 1 + n1
        n2 == digitRun(s, comma1 + 1)
        close1 == comma1 + 1 + n2
        open2 == close1 + 1
        n3 == digitRun(s, open2 + 1)
        comma2 == open2 + 1 + n3
        n4 == digitRun(s, comma2 + 1)
        close2 == comma2 + 1 + n4
    IN  IF /\ charAt(s, i) = "[" /\ n1 > 0 /\ charAt(s, comma1) = ","
           /\ n2 > 0 /\ charAt(s, close1) = "]"
           /\ charAt(s, open2) = "[" /\ n3 > 0 /\ charAt(s, comma2) = ","
           /\ n4 > 0 /\ charAt(s, close2) = "]"
        THEN <<SubSeq(s, i + 1, comma1 - 1), SubSeq(s, comma1 + 1, close1 - 1),
               SubSeq(s, open2 + 1, comma2 - 1), SubSeq(s, comma2 + 1, close2 - 1)>>
        ELSE <<>>

\* bounds.match(...): the leftmost match, <<>> for null
boundsMatch(s) ==
    LET at == {i \in 1..Len(s) : boundsMatchAt(s, i) # <<>>}
    IN  IF at = {} THEN <<>>
        ELSE boundsMatchAt(s, CHOOSE i \in at : \A j \in at : i <= j)

rectangle(x, y, width, height) == [x |-> x, y |-> y, width |-> width, height |-> height]

parseAndroidBounds(bounds) ==
    LET match == boundsMatch(bounds)
    IN  IF match = <<>> THEN rectangle(Num(0), Num(0), Num(0), Num(0))
        ELSE LET x1 == parseInt10(match[1])
                 y1 == parseInt10(match[2])
                 x2 == parseInt10(match[3])
                 y2 == parseInt10(match[4])
             IN  rectangle(x1, y1, minus(x2, x1), minus(y2, y1))

\* attributes.x || '0'
orZeroText(v) == IF v = Undefined \/ v = Str(<<>>) THEN <<"0">> ELSE v.s

parseIOSBounds(attributes) ==
    rectangle(parseInt10(orZeroText(attributes.x)),
              parseInt10(orZeroText(attributes.y)),
              parseInt10(orZeroText(attributes.width)),
              parseInt10(orZeroText(attributes.height)))

\* Specification SpecBounds: the two resolvers on drawn inputs.  A bounds
\* string is drawn as four coordinate texts in a shape; the action sees only
\* the string.
CoordTexts == {<<"0">>, <<"7">>, <<"1", "2">>, <<"0", "7">>, <<"-", "5">>, <<"a">>, <<>>}

Shapes == {"plain", "embedded", "open", "spaced"}

corner(a, b) == <<"[">> \o a \o <<",">> \o b \o <<"]">>

boundsText(shape, c) ==
    CASE shape = "plain" -> corner(c[1], c[2]) \o corner(c[3], c[4])
      [] shape = "embedded" -> <<"x">> \o corner(c[1], c[2]) \o corner(c[3], c[4]) \o <<"y">>
      [] shape = "open" -> <<"[">> \o c[1] \o <<",">> \o c[2] \o <<"]", "[">> \o c[3] \o <<",">> \o c[4]
      [] shape = "spaced" -> corner(c[1], c[2]) \o <<" ">> \o corner(c[3], c[4])

JunkTexts == {<<>>, <<"a", "b", "c">>, corner(<<"1">>, <<"2">>)}

IOSTexts ==
    {Undefined, Str(<<>>), Str(<<"0">>), Str(<<"7">>), Str(<<"1", "2">>), Str(<<"-", "5">>),
     Str(<<"a">>), Str(<<"1", "2", "p", "x">>), Str(<<" ", "7">>), Str(<<"3", ".", "7">>)}

InitBounds ==
    /\ SessionIdle
    /\ ScanIdle
    /\ fnPc = "in"
    /\ fnOut = Undefined
    /\ \/ \E shape \in Shapes, c \in [1..4 -> CoordTexts] :
              fnIn = [fn |-> "parseAndroidBounds", shape |-> shape, corners |-> c,
                      bounds |-> boundsText(shape, c)]
       \/ \E junk \in JunkTexts :
              fnIn = [fn |-> "parseAndroidBounds", shape |-> "junk", corners |-> <<>>,
                      bounds |-> junk]
       \/ \E a \in [x : IOSTexts, y : IOSTexts, width : IOSTexts, height : IOSTexts] :
              fnIn = [fn |-> "parseIOSBounds", attributes |-> a]

ParseAndroidBounds ==
    /\ fnPc = "in"
    /\ fnIn.fn = "parseAndroidBounds"
    /\ fnOut' = parseAndroidBounds(fnIn.bounds)
    /\ fnPc' = "out"
    /\ UNCHANGED <<fnIn, sessionVars, scanVars>>

ParseIOSBounds ==
    /\ fnPc = "in"
    /\ fnIn.fn = "parseIOSBounds"
    /\ fnOut' = parseIOSBounds(fnIn.attributes)
    /\ fnPc' = "out"
    /\ UNCHANGED <<fnIn, sessionVars, scanVars>>

NextBounds == ParseAndroidBounds \/ ParseIOSBounds

SpecBounds == InitBounds /\ [][NextBounds]_vars

AndroidParsed == fnPc = "out" /\ fnIn.fn = "parseAndroidBounds"
IOSParsed == fnPc = "out" /\ fnIn.fn = "parseIOSBounds"

RectFields == {"x", "y", "width", "height"}

\* what JavaScript's parseInt(text, 10) gives for the drawn texts
Denotes(txt) ==
    CASE txt = <<"0">> -> Num(0)
      [] txt = <<"7">> -> Num(7)
      [] txt = <<"1", "2">> -> Num(12)
      [] txt = <<"0", "7">> -> Num(7)
      [] txt = <<"-", "5">> -> Num(-5)
      [] txt = <<" ", "7">> -> Num(7)
      [] txt = <<"1", "2", "p", "x">> -> Num(12)
      [] txt = <<"3", ".", "7">> -> Num(3)
      [] OTHER -> NaN

\* C13: both resolvers return, for every input, a rectangle whose width and
\* height are integers >= 0.  (What the code returns instead: x2 - x1 and
\* y2 - y1 unclamped, negative for reversed corners; on iOS a negative
\* number for a negative attribute and NaN for a non-numeric one.)
C13_BoundsTotal ==
    AndroidParsed \/ IOSParsed =>
        /\ DOMAIN fnOut = RectFields
        /\ \A f \in {"width", "height"} : fnOut[f].t = "num" /\ fnOut[f].n >= 0

\* C14: each field returned by parseIOSBounds is the integer value of its
\* attribute when that is a numeric string, and 0 when the attribute is
\* absent, empty or cannot be parsed as a number.
C14_IOSDefaults ==
    IOSParsed =>
        \A f \in RectFields :
            LET v == fnIn.attributes[f]
            IN  fnOut[f] = IF v.t = "str" /\ Denotes(v.s) # NaN
                              /\ v.s # <<"1", "2", "p", "x">>
                           THEN Denotes(v.s)
                           ELSE Num(0)

-----------------------------------------------------------------------------
(* xmlToJSON, translateRecursively, flattenElementTree                     *)
(* (src/src/locators/source-parsing.ts).  A DOM document is the sequence   *)
(* of its nodes in document order; a node names its parent by position, 0  *)
(* standing for the document node.  nodeType 1 is an element, 3 a text     *)
(* node.                                                                   *)

MaxNodes == 5

DocumentNode == 0

textNode(parent) ==
    [parent |-> parent, nodeType |-> 3, nodeName |-> "#text", attributes |-> <<>>]

\* node.childNodes, in document order
childNodes(nodes, p) == seqOf({i \in 1..Len(nodes) : nodes[i].parent = p})

\* mutant: every child node is taken, whatever its type
childNodesOf_anyType(nodes, p) == seqOf({i \in 1..Len(nodes) : nodes[i].parent = p})

\* lines 52-64: the children that are elements
childNodesOf(nodes, p) == seqOf({i \in 1..Len(nodes) : nodes[i].parent = p /\ nodes[i].nodeType = 1})

RECURSIVE replaceNewlines(_)
\* attr.value.replace(/(\n)/gm, '\\n')
replaceNewlines(value) ==
    IF value = <<>> THEN <<>>
    ELSE (IF Head(value) = "\n" THEN <<"\\", "n">> ELSE <<Head(value)>>)
             \o replaceNewlines(Tail(value))

\* lines 74-86: the attributes of a node as a mapping from names to values
attributesOf(node) ==
    LET names == {node.attributes[k].name : k \in 1..Len(node.attributes)}
    IN  [n \in names |->
            LET last == CHOOSE k \in 1..Len(node.attributes) :
                            /\ node.attributes[k].name = n
                            /\ \A j \in 1..Len(node.attributes) :
                                   node.attributes[j].name = n => j <= k
            IN  replaceNewlines(node.attributes[last].value)]

\* mutant: the index is appended without the separating dot
pathOf_noDot(parentPath, index) ==
    IF index = Null THEN <<>> ELSE parentPath \o Digits(index.n)

\* line 89: index === null ? '' : `${parentPath ? parentPath + '.' : ''}${index}`
pathOf(parentPath, index) ==
    IF index = Null THEN <<>>
    ELSE (IF parentPath # <<>> THEN parentPath \o <<".">> ELSE <<>>) \o Digits(index.n)

RECURSIVE translateRecursively(_, _, _, _)
translateRecursively(nodes, domNode, parentPath, index) ==
    LET path == pathOf(parentPath, index)
        kids == childNodesOf(nodes, domNode)
    IN  [children |-> [k \in 1..Len(kids) |->
                          translateRecursively(nodes, kids[k], path, Num(k - 1))],
         tagName |-> nodes[domNode].nodeName,
         attributes |-> attributesOf(nodes[domNode]),
         path |-> path]

EmptyElement == [children |-> <<>>, tagName |-> "", attributes |-> <<>>, path |-> <<>>]

\* sourceDoc.getElementsByTagName('parsererror').length > 0
hasParserError(nodes) ==
    \E i \in 1..Len(nodes) : nodes[i].nodeType = 1 /\ nodes[i].nodeName = "parsererror"

\* lines 106-131; `parsed` is how parser.parseFromString ended: it threw, or
\* it returned a document
xmlToJSON(parsed) ==
    IF parsed.threw THEN Null
    ELSE IF hasParserError(parsed.nodes) THEN Null
    ELSE LET children == childNodesOf(parsed.nodes, DocumentNode)
             \* sourceDoc.documentElement is the document's first element child
             documentElement == IF children = <<>> THEN Null ELSE Num(children[1])
             inner == IF documentElement = Null THEN <<>>
                      ELSE childNodesOf(parsed.nodes, documentElement.n)
             firstChild == IF children # <<>> THEN Num(children[1])
                           ELSE IF inner # <<>> THEN Num(inner[1])
                           ELSE Null
         IN  IF firstChild # Null
             THEN translateRecursively(parsed.nodes, firstChild.n, <<>>, Null)
             ELSE EmptyElement

RECURSIVE flattenElementTree(_)
RECURSIVE traverseAll(_)
\* lines 186-198: the element, then its children's subtrees in order
flattenElementTree(root) == <<root>> \o traverseAll(root.children)
traverseAll(children) ==
    IF children = <<>> THEN <<>>
    ELSE flattenElementTree(Head(children)) \o traverseAll(Tail(children))

\* Specification SpecXml: xmlToJSON on drawn documents.  The parser is the
\* library's; for each markup the model draws how the parse ends.
NewlineAttribute == <<[name |-> "text", value |-> <<"a", "\n", "b">>]>>

\* the nodes a document is built from, still without a parent
NodeSorts == {elementNode(0, "Node", <<>>), elementNode(0, "Node", NewlineAttribute), textNode(0)}

RECURSIVE openElements(_, _)
\* the elements still open behind node i: i itself and its ancestors
openElements(nodes, i) ==
    IF i = DocumentNode THEN {}
    ELSE (IF nodes[i].nodeType = 1 THEN {i} ELSE {}) \cup openElements(nodes, nodes[i].parent)

RECURSIVE DomsOf(_)
\* the documents of n nodes under one root element
DomsOf(n) ==
    IF n = 1 THEN {<<sort>> : sort \in {e \in NodeSorts : e.nodeType = 1}}
    ELSE UNION {{Append(d, [sort EXCEPT !.parent = p]) :
                    p \in openElements(d, n - 1), sort \in NodeSorts} :
                d \in DomsOf(n - 1)}

\* a processing instruction, child of the document (nodeType 7)
instructionNode ==
    [parent |-> DocumentNode, nodeType |-> 7, nodeName |-> "xml-stylesheet", attributes |-> <<>>]

\* the document d with a processing instruction in front of its root element
behindInstruction(d) ==
    <<instructionNode>>
        \o [k \in 1..Len(d) |->
               [d[k] EXCEPT !.parent = IF @ = DocumentNode THEN DocumentNode ELSE @ + 1]]

\* one root element, with or without a processing instruction before it
WellFormedDocs ==
    LET rooted == UNION {DomsOf(n) : n \in 1..MaxNodes}
    IN  rooted \cup {behindInstruction(d) : d \in rooted}

returned(nodes) == [threw |-> FALSE, nodes |-> nodes]
threwError == [threw |-> TRUE, nodes |-> <<>>]

\* how the parse of markup that is not well-formed can end: the parser
\* throws, it returns a document that holds a parsererror element, or it
\* recovers and returns the document it has built so far (possibly empty,
\* or with no element in it)
MalformedOutcomes ==
    {threwError}
    \cup {returned(<<elementNode(0, "parsererror", <<>>)>>)}
    \cup {returned(Append(d, elementNode(1, "parsererror", <<>>))) :
              d \in UNION {DomsOf(n) : n \in 1..(MaxNodes - 1)}}
    \cup {returned(<<>>), returned(<<instructionNode>>)}
    \cup {returned(d) : d \in WellFormedDocs}

InitXml ==
    /\ SessionIdle
    /\ ScanIdle
    /\ fnPc = "in"
    /\ fnOut = Undefined
    /\ \/ \E d \in WellFormedDocs :
              fnIn = [fn |-> "xmlToJSON", wellFormed |-> TRUE, parsed |-> returned(d)]
       \/ \E o \in MalformedOutcomes :
              fnIn = [fn |-> "xmlToJSON", wellFormed |-> FALSE, parsed |-> o]

XmlToJSON ==
    /\ fnPc = "in"
    /\ fnIn.fn = "xmlToJSON"
    /\ fnOut' = xmlToJSON(fnIn.parsed)
    /\ fnPc' = "out"
    /\ UNCHANGED <<fnIn, sessionVars, scanVars>>

NextXml == XmlToJSON

SpecXml == InitXml /\ [][NextXml]_vars

XmlParsed == fnPc = "out" /\ fnIn.fn = "xmlToJSON"
TreeBuilt == XmlParsed /\ fnIn.wellFormed /\ fnOut # Null

RECURSIVE positionIn(_, _)
\* the position of element e in the document: the indices, each among the
\* element children of the parent, that lead from the root element to e
positionIn(nodes, e) ==
    IF nodes[e].parent = DocumentNode THEN <<>>
    ELSE Append(positionIn(nodes, nodes[e].parent),
                Cardinality({j \in 1..(e - 1) :
                                nodes[j].parent = nodes[e].parent /\ nodes[j].nodeType = 1}))

RECURSIVE dotted(_)
\* a sequence of indices written with dots
dotted(pos) ==
    IF pos = <<>> THEN <<>>
    ELSE IF Len(pos) = 1 THEN Digits(pos[1])
    ELSE dotted(SubSeq(pos, 1, Len(pos) - 1)) \o <<".">> \o Digits(pos[Len(pos)])

RECURSIVE rederive(_, _)
RECURSIVE rederiveAll(_, _, _)
\* the positions of the nodes of a tree, found by walking it depth-first
rederive(node, pos) == <<pos>> \o rederiveAll(node.children, pos, 0)
rederiveAll(children, pos, k) ==
    IF children = <<>> THEN <<>>
    ELSE rederive(Head(children), Append(pos, k)) \o rederiveAll(Tail(children), pos, k + 1)

\* C15: in the tree built from a well-formed document the root's path is
\* empty and the path of every node is the dotted list of the zero-based
\* indices, each among the element children of the parent, that lead to it
\* from the root; the nodes of the depth-first flattening are the document's
\* elements in document order, their paths are pairwise distinct, and the
\* paths re-derived by walking the flattened tree are the stored ones.
C15_PathInvariant ==
    TreeBuilt =>
        LET nodes == fnIn.parsed.nodes
            elements == seqOf({i \in 1..Len(nodes) : nodes[i].nodeType = 1})
            flat == flattenElementTree(fnOut)
            walked == rederive(fnOut, <<>>)
        IN  /\ fnOut.path = <<>>
            /\ Len(flat) = Len(elements)
            /\ Len(walked) = Len(flat)
            /\ \A i \in 1..Len(flat) :
                   /\ flat[i].path = dotted(positionIn(nodes, elements[i]))
                   /\ flat[i].path = dotted(walked[i])
            /\ \A i, j \in 1..Len(flat) : i # j => flat[i].path # flat[j].path

\* a root whose first child node is text and whose first element child has
\* an element child: that grandchild has the path 0.0
C15_Witness ==
    /\ TreeBuilt
    /\ Len(fnIn.parsed.nodes) >= 4
    /\ fnIn.parsed.nodes[2].nodeType = 3
    /\ fnIn.parsed.nodes[3].nodeType = 1
    /\ fnIn.parsed.nodes[4].parent = 3
    /\ fnIn.parsed.nodes[4].nodeType = 1
    /\ flattenElementTree(fnOut)[3].path = <<"0", ".", "0">>

\* C16: for markup that is not well-formed xmlToJSON returns null, never a
\* tree; and whenever the parser throws or reports a parsererror the result
\* is null.
C16_DocumentParseFailure ==
    XmlParsed =>
        /\ ~fnIn.wellFormed => fnOut = Null
        /\ fnIn.parsed.threw \/ hasParserError(fnIn.parsed.nodes) => fnOut = Null

\* the parse ended without an error as xmlToJSON detects it: the parser
\* returned a document, and no element of it is named parsererror
ParsedWithoutError == ~fnIn.parsed.threw /\ ~hasParserError(fnIn.parsed.nodes)

\* the element children of the document, in document order
DocumentElements ==
    seqOf({i \in 1..Len(fnIn.parsed.nodes) :
              /\ fnIn.parsed.nodes[i].parent = DocumentNode
              /\ fnIn.parsed.nodes[i].nodeType = 1})

C30_InstructionWitness ==
    /\ XmlParsed
    /\ fnIn.wellFormed
    /\ fnIn.parsed.nodes[1] = instructionNode
    /\ fnOut # Null
    /\ fnOut.tagName = "Node"
    /\ Len(fnOut.children) = 2

-----------------------------------------------------------------------------
(* The capabilities of an app session: startAppTool lines 58-103           *)
(* (src/src/tools/app-session.tool.ts) and the builders of                 *)
(* src/src/config/appium.config.ts.  An options object is the sequence of  *)
(* its entries <<key, value>> in insertion order; a capabilities object is *)
(* a mapping from keys to values, a key being <<name>> or                  *)
(* <<"appium:", name>>.                                                    *)

Bool(b) == [t |-> "bool", b |-> b]

\* options.key: undefined when the object has no such key
optionOf(options, key) ==
    IF \E k \in 1..Len(options) : options[k][1] = key
    THEN options[CHOOSE k \in 1..Len(options) : options[k][1] = key][2]
    ELSE Undefined

\* a ?? b
nullish(a, b) == IF a = Undefined \/ a = Null THEN b ELSE a

\* a || b for strings and undefined
orElse(a, b) == IF a = Undefined \/ a = Null \/ a = Str(<<>>) THEN b ELSE a

appium(key) == <<"appium:", key>>

\* lines 58-63, 95-100: autoGrantPermissions, autoAcceptAlerts and the
\* override by autoDismissAlerts
alertCapabilities(capabilities, options) ==
    LET c1 == mapSet(capabilities, appium("autoGrantPermissions"),
                     nullish(optionOf(options, "autoGrantPermissions"), Bool(TRUE)))
        c2 == mapSet(c1, appium("autoAcceptAlerts"),
                     nullish(optionOf(options, "autoAcceptAlerts"), Bool(TRUE)))
    IN  IF optionOf(options, "autoDismissAlerts") # Undefined
        THEN mapSet(mapSet(c2, appium("autoDismissAlerts"), optionOf(options, "autoDismissAlerts")),
                    appium("autoAcceptAlerts"), Undefined)
        ELSE c2

RECURSIVE customOptions(_, _, _)
\* for (const [key, value] of Object.entries(options))
\*     if (!excluded.includes(key)) capabilities[`appium:${key}`] = value
customOptions(capabilities, entries, excluded) ==
    IF entries = <<>> THEN capabilities
    ELSE customOptions(IF Head(entries)[1] \in excluded THEN capabilities
                       ELSE mapSet(capabilities, appium(Head(entries)[1]), Head(entries)[2]),
                       Tail(entries), excluded)

IOSExcluded ==
    {"deviceName", "platformVersion", "automationName", "autoAcceptAlerts", "autoDismissAlerts"}
AndroidExcluded ==
    {"deviceName", "platformVersion", "automationName", "autoGrantPermissions", "appWaitActivity"}

baseCapabilities(platformName, appPath, options, automationName) ==
    (<<"platformName">> :> Str(Lit(platformName)))
    @@ (appium("platformVersion") :> optionOf(options, "platformVersion"))
    @@ (appium("deviceName") :> optionOf(options, "deviceName"))
    @@ (appium("automationName") :> orElse(optionOf(options, "automationName"),
                                          Str(Lit(automationName))))
    @@ (appium("app") :> appPath)

buildIOSCapabilities(appPath, options) ==
    customOptions(alertCapabilities(baseCapabilities("iOS", appPath, options, "XCUITest"),
                                    options),
                  options, IOSExcluded)

buildAndroidCapabilities(appPath, options) ==
    LET c1 == alertCapabilities(baseCapabilities("Android", appPath, options, "UiAutomator2"),
                                options)
        wait == optionOf(options, "appWaitActivity")
        \* if (options.appWaitActivity)
        c2 == IF wait # Undefined /\ wait # Str(<<>>)
              THEN mapSet(c1, appium("appWaitActivity"), wait)
              ELSE c1
    IN  customOptions(c2, options, AndroidExcluded)

\* startAppTool lines 58-103: the arguments are destructured
\* (autoGrantPermissions = true) and handed to the platform's builder
capabilitiesFor(args) ==
    LET common ==
            << <<"deviceName", args.deviceName>>,
               <<"platformVersion", args.platformVersion>>,
               <<"automationName",
                 orElse(args.automationName,
                        Str(Lit(IF args.platform = "iOS" THEN "XCUITest" ELSE "UiAutomator2")))>>,
               <<"autoGrantPermissions",
                 IF args.autoGrantPermissions = Undefined THEN Bool(TRUE)
                 ELSE args.autoGrantPermissions>>,
               <<"autoAcceptAlerts", args.autoAcceptAlerts>>,
               <<"autoDismissAlerts", args.autoDismissAlerts>> >>
    IN  IF args.platform = "iOS"
        THEN buildIOSCapabilities(args.appPath, common)
        ELSE buildAndroidCapabilities(
                 args.appPath, Append(common, <<"appWaitActivity", args.appWaitActivity>>))

\* Specification SpecCaps: the capabilities built for drawn arguments
OptionalBool == {Undefined, Bool(TRUE), Bool(FALSE)}

StartAppArguments ==
    [platform : {"iOS", "Android"},
     appPath : {Str(Lit("/tmp/app"))},
     deviceName : {Str(Lit("device"))},
     platformVersion : {Undefined, Str(Lit("17.0"))},
     automationName : {Undefined, Str(Lit("Espresso"))},
     autoGrantPermissions : OptionalBool,
     autoAcceptAlerts : OptionalBool,
     autoDismissAlerts : OptionalBool,
     appWaitActivity : {Undefined, Str(Lit(".Main"))}]

InitCaps ==
    /\ SessionIdle
    /\ ScanIdle
    /\ fnPc = "in"
    /\ fnOut = Undefined
    /\ \E args \in StartAppArguments : fnIn = [fn |-> "capabilitiesFor", args |-> args]

BuildCapabilities ==
    /\ fnPc = "in"
    /\ fnIn.fn = "capabilitiesFor"
    /\ fnOut' = capabilitiesFor(fnIn.args)
    /\ fnPc' = "out"
    /\ UNCHANGED <<fnIn, sessionVars, scanVars>>

NextCaps == BuildCapabilities

SpecCaps == InitCaps /\ [][NextCaps]_vars

CapsBuilt == fnPc = "out" /\ fnIn.fn = "capabilitiesFor"

\* C18: when autoDismissAlerts is supplied, on either platform and whatever
\* the other options, the capabilities have appium:autoDismissAlerts equal
\* to the supplied value and appium:autoAcceptAlerts undefined.
C18_DismissOverridesAccept ==
    CapsBuilt /\ fnIn.args.autoDismissAlerts # Undefined =>
        /\ fnOut[appium("autoDismissAlerts")] = fnIn.args.autoDismissAlerts
        /\ fnOut[appium("autoAcceptAlerts")] = Undefined

\* C19: when neither autoAcceptAlerts nor autoDismissAlerts is supplied, the
\* capabilities have appium:autoAcceptAlerts = true, on iOS and on Android.
C19_AcceptDefaultsTrue ==
    /\ CapsBuilt
    /\ fnIn.args.autoAcceptAlerts = Undefined
    /\ fnIn.args.autoDismissAlerts = Undefined
    => fnOut[appium("autoAcceptAlerts")] = Bool(TRUE)

====
